---- MODULE Spec2Model ----
(***************************************************************************)
(* Pinyin-recall drill scheduler of chinese_chr_app/backend:               *)
(* pinyin_search.py (normalizer), pinyin_recall.py (phonetic index,        *)
(* distractors, session queue, in-memory answer processor) and database.py *)
(* (character-bank answer processor).                                      *)
(***************************************************************************)
EXTENDS Integers, Sequences, FiniteSets, TLC

VARIABLES
    USE_DATABASE,        \* app.py: store selected at import time
    bank,                \* table pinyin_recall_character_bank: user -> character -> row
    learning_state,      \* app.py _learning_state_pinyin: user -> character -> dict
    now,                 \* int(time.time())
    last_answer,         \* arguments, clock reading and prior row of the latest answer call
    PINYIN_INDEX_CACHE,  \* pinyin_recall.py _PINYIN_INDEX_CACHE
    global_random,       \* state of the module-level generator of `random`
    session,             \* arguments, inputs read and result of the latest build_session_queue call
    corpus,              \* app.py: the hwxnet_lookup mapping loaded for the process, with its iteration order
    mastered_elsewhere,  \* user -> number of the user's rows with score >= 10 for characters
                         \* other than the six of Characters (none of them a candidate)
    distractor_call,     \* arguments and result of the latest direct build_distractors call
    query,               \* a search query or pronunciation token with the results of
                         \* parse_pinyin_query and pinyin_to_base_and_tone on it
    submissions,         \* request threads inside the answer route: position, arguments
                         \* and values read by each, and per character the number of
                         \* completed submissions, whether two were in flight together,
                         \* and the score the completed outcomes add up to
    drill,               \* a learner who answers every item of a session before asking
                         \* for the next: items still to answer, characters of the
                         \* latest queue, due characters the latest queue left out
    index_calls          \* request threads inside get_or_build_pinyin_index: position of each,
                         \* the index instance each built and was handed, runs of
                         \* build_pinyin_index, and the instance _PINYIN_INDEX_CACHE refers to

vars == <<USE_DATABASE, bank, learning_state, now, last_answer,
          PINYIN_INDEX_CACHE, global_random, session, corpus, mastered_elsewhere, distractor_call,
          index_calls, query, submissions, drill>>

----------------------------------------------------------------------------
(* Bounds of the model *)

MaxAnswers == 2          \* answer calls per behaviour of Spec
MaxRecordAnswers == 11   \* answer calls per behaviour of SpecRecord

Users == {"u1"}
Instants == {0, 86400}                        \* clock readings of Spec
RecordInstants == {0, 60, 86400, 3 * 86400}   \* clock readings of SpecRecord
AnswerCharacters == {"A", "B"}                \* characters answered in Spec
\* (due_first, total_target) arguments: a tight queue and a roomy one
QueueSizes == {[due_first |-> 1, total_target |-> 2], [due_first |-> 8, total_target |-> 20]}

----------------------------------------------------------------------------
(* Program constants *)

STAGE_INTERVAL_DAYS == <<0, 1, 3, 7, 14, 30>>
MAX_STAGE == Len(STAGE_INTERVAL_DAYS) - 1
PINYIN_RECALL_SCORE_CORRECT_DELTA == 10
PINYIN_RECALL_SCORE_WRONG_DELTA == 15
PINYIN_RECALL_SCORE_MIN == 0
PINYIN_RECALL_SCORE_MAX == 100
PINYIN_RECALL_STAGE_INTERVAL_DAYS == <<0, 1, 3, 7, 14, 30>>
PINYIN_RECALL_MAX_STAGE == Len(PINYIN_RECALL_STAGE_INTERVAL_DAYS) - 1
SecondsPerDay == 86400
SameSessionDelay == 60

Min(a, b) == IF a < b THEN a ELSE b
Max(a, b) == IF a > b THEN a ELSE b

\* next_due_utc = None
NoDue == -1

\* A character with no row / no dict. Every read of a missing row or a
\* missing key in the code defaults to these values.
NoRecord ==
    [present |-> FALSE, score |-> 0, stage |-> 0, next_due_utc |-> NoDue,
     total_correct |-> 0, total_wrong |-> 0, total_i_dont_know |-> 0]

Characters == {"A", "B", "C", "D", "E", "F"}

----------------------------------------------------------------------------
(* Strings *)

\* A pronunciation token is a sequence of glyphs. Tone-marked vowels are
\* written <vowel><tone> ("a1" = a-macron, "a2" = a-acute, "a3" = a-caron,
\* "a4" = a-grave, "a3b" = a-breve); "v0" is u-diaeresis, "v1".."v4" its toned
\* forms; " " is a space and "tab" another whitespace character; "M" is an
\* upper-case letter; "0".."6" are digits and "-" is a punctuation mark.
Whitespace == {" ", "tab"}

\* str.lower() on one glyph.
LowerGlyph(g) == IF g = "M" THEN "m" ELSE g

lower(s) == [i \in 1..Len(s) |-> LowerGlyph(s[i])]

RECURSIVE lstrip(_)
lstrip(s) == IF s # <<>> /\ Head(s) \in Whitespace THEN lstrip(Tail(s)) ELSE s

RECURSIVE rstrip(_)
rstrip(s) ==
    IF s # <<>> /\ s[Len(s)] \in Whitespace THEN rstrip(SubSeq(s, 1, Len(s) - 1)) ELSE s

\* str.strip()
strip(s) == rstrip(lstrip(s))

\* x in list
InSeq(x, list) == \E i \in 1..Len(list) : list[i] = x

\* pinyin_search.py _ACCENT_TO_BASE_AND_TONE
ACCENT_TO_BASE_AND_TONE ==
    [a1 |-> <<"a", 1>>, a2 |-> <<"a", 2>>, a3 |-> <<"a", 3>>, a4 |-> <<"a", 4>>, a3b |-> <<"a", 3>>,
     e1 |-> <<"e", 1>>, e2 |-> <<"e", 2>>, e3 |-> <<"e", 3>>, e4 |-> <<"e", 4>>, e3b |-> <<"e", 3>>,
     i1 |-> <<"i", 1>>, i2 |-> <<"i", 2>>, i3 |-> <<"i", 3>>, i4 |-> <<"i", 4>>, i3b |-> <<"i", 3>>,
     o1 |-> <<"o", 1>>, o2 |-> <<"o", 2>>, o3 |-> <<"o", 3>>, o4 |-> <<"o", 4>>, o3b |-> <<"o", 3>>,
     u1 |-> <<"u", 1>>, u2 |-> <<"u", 2>>, u3 |-> <<"u", 3>>, u4 |-> <<"u", 4>>, u3b |-> <<"u", 3>>,
     v1 |-> <<"v", 1>>, v2 |-> <<"v", 2>>, v3 |-> <<"v", 3>>, v4 |-> <<"v", 4>>,
     v0 |-> <<"v", 0>>]

\* (None, None)
NoBase == <<>>
NoTone == -1

\* Tone left by the loop of _pinyin_to_base_and_tone_impl: that of the last
\* glyph found in the accent table, 0 when there is none.
RECURSIVE LastTone(_, _)
LastTone(s, tone) ==
    IF s = <<>> THEN tone
    ELSE LastTone(Tail(s),
                  IF Head(s) \in DOMAIN ACCENT_TO_BASE_AND_TONE
                  THEN ACCENT_TO_BASE_AND_TONE[Head(s)][2] ELSE tone)

\* pinyin_search.py pinyin_to_base_and_tone / _pinyin_to_base_and_tone_impl
pinyin_to_base_and_tone(s) ==
    IF s = <<>> \/ strip(s) = <<>>
    THEN [base |-> NoBase, tone |-> NoTone]
    ELSE LET t == lower(strip(s))
             base_chars == [i \in 1..Len(t) |->
                               IF t[i] \in DOMAIN ACCENT_TO_BASE_AND_TONE
                               THEN ACCENT_TO_BASE_AND_TONE[t[i]][1] ELSE t[i]]
         IN  [base |-> base_chars, tone |-> LastTone(t, 0)]

----------------------------------------------------------------------------
(* Query parser *)

\* pinyin_search.py _PLAIN_VOWELS and _TONE_MARK_CHARS
PLAIN_VOWELS == {"a", "e", "i", "o", "u", "v"}
TONE_MARK_CHARS == DOMAIN ACCENT_TO_BASE_AND_TONE

\* The characters of "012345".
ToneDigits == {"0", "1", "2", "3", "4", "5"}

\* c.isalpha() and c.islower(): the unaccented lower-case letters of the
\* glyph alphabet and the accented vowels.
IsLowerLetter(c) ==
    c \in {"a", "e", "i", "o", "u", "v", "b", "k", "l", "m", "n", "g"} \cup TONE_MARK_CHARS

\* Faulty variant of is_valid_syllable_base: only the emptiness test is made.
is_valid_syllable_base_any_character(s) == s # <<>>

\* pinyin_search.py _is_valid_syllable_base
is_valid_syllable_base(s) ==
    s # <<>> /\ \A i \in 1..Len(s) : IsLowerLetter(s[i])

\* pinyin_search.py _normalize_ü_to_v: s.replace("ü", "v")
normalize_u_diaeresis_to_v(s) == [i \in 1..Len(s) |-> IF s[i] = "v0" THEN "v" ELSE s[i]]

\* str(tone) for a tone 0..5, and int(digit) for a character of "012345".
DigitOf == [t \in 0..5 |-> <<"0", "1", "2", "3", "4", "5">>[t + 1]]
IntOf(digit) == CHOOSE t \in 0..5 : DigitOf[t] = digit

\* f"{base}{tone}" if tone else f"{base}0"
KeyOf(base, tone) == Append(base, DigitOf[tone])

\* The one error message of parse_pinyin_query, and its rejection.
FormatError == "format error"
Rejected == [valid |-> FALSE, error |-> FormatError, has_keys |-> FALSE, keys |-> <<>>]
Accepted(keys) == [valid |-> TRUE, error |-> "", has_keys |-> TRUE, keys |-> keys]

\* pinyin_search.py parse_pinyin_query: (is_valid, error_message, search_keys);
\* error "" stands for None, has_keys = FALSE for search_keys None.
parse_pinyin_query(raw) ==
    IF raw = <<>> \/ strip(raw) = <<>> THEN Rejected
    ELSE LET s == lower(strip(raw))
             has_tone_mark == \E i \in 1..Len(s) : s[i] \in TONE_MARK_CHARS
         IN  IF \E i \in 1..Len(s) : s[i] = " " THEN Rejected
             ELSE IF Len(s) >= 2 /\ s[Len(s)] \in ToneDigits
             THEN LET digit == s[Len(s)]
                      base_part == normalize_u_diaeresis_to_v(SubSeq(s, 1, Len(s) - 1))
                      tone == IF digit \in {"0", "5"} THEN 0 ELSE IntOf(digit)
                  IN  IF has_tone_mark THEN Rejected
                      ELSE IF base_part = <<>> \/ ~is_valid_syllable_base(base_part) THEN Rejected
                      ELSE Accepted(<<KeyOf(base_part, tone)>>)
             ELSE IF has_tone_mark
             THEN LET bt == pinyin_to_base_and_tone(s)
                  IN  IF bt.base = <<>> \/ ~is_valid_syllable_base(bt.base) THEN Rejected
                      ELSE Accepted(<<KeyOf(bt.base, bt.tone)>>)
             ELSE LET base == normalize_u_diaeresis_to_v(s)
                  IN  IF base = <<>> \/ ~is_valid_syllable_base(base) THEN Rejected
                      ELSE Accepted(<<base, Append(base, "1"), Append(base, "2"),
                                      Append(base, "3"), Append(base, "4"),
                                      Append(base, "0"), Append(base, "5")>>)

----------------------------------------------------------------------------
(* Corpus *)

\* zibiao_index = None
NoIndex == -1

\* hwxnet_lookup: character -> entry, in the mapping's iteration order.
\* pinyin: the entry's pronunciation list; zibiao_index: its rank index;
\* liCi: its example words, flattened in order; Words: the Feng word list
\* of character_lookup.
CorpusOrder == <<"A", "B", "C", "D", "E", "F">>

hwxnet_lookup ==
    [A |-> [pinyin |-> << <<"m", "a1">>, <<"m", "a2">> >>, zibiao_index |-> 1,
            liCi |-> <<"mama", "ma">>, Words |-> <<"mamama">>],
     B |-> [pinyin |-> << <<"m", "a2">> >>, zibiao_index |-> 2,
            liCi |-> <<"bb">>, Words |-> <<>>],
     C |-> [pinyin |-> << <<"b", "a1">> >>, zibiao_index |-> 3,
            liCi |-> <<>>, Words |-> <<"cc", "c">>],
     D |-> [pinyin |-> << <<" ", "n", "i3">>, <<" ">> >>, zibiao_index |-> 4,
            liCi |-> <<"dddd", "ddd", "dd", "d">>, Words |-> <<"ddd">>],
     E |-> [pinyin |-> <<>>, zibiao_index |-> 5,
            liCi |-> <<>>, Words |-> <<>>],
     F |-> [pinyin |-> << <<"b", "a4">>, <<"M", "a1">> >>, zibiao_index |-> 501,
            liCi |-> <<>>, Words |-> <<>>]]

\* Code-point order of the characters (tie-break of the candidate sort).
CodePoint == [A |-> 1, B |-> 2, C |-> 3, D |-> 4, E |-> 5, F |-> 6]

\* pinyin_recall.py get_correct_pinyin
get_correct_pinyin(hwxnet_entry) ==
    IF hwxnet_entry.pinyin = <<>> THEN <<>> ELSE strip(hwxnet_entry.pinyin[1])

\* [p.strip() for p in list if p and p.strip()]
RECURSIVE StripNonBlank(_)
StripNonBlank(list) ==
    IF list = <<>> THEN <<>>
    ELSE IF strip(Head(list)) = <<>> THEN StripNonBlank(Tail(list))
    ELSE <<strip(Head(list))>> \o StripNonBlank(Tail(list))

\* pinyin_recall.py get_other_pronunciations
get_other_pronunciations(hwxnet_entry) ==
    IF hwxnet_entry.pinyin = <<>> THEN <<>> ELSE StripNonBlank(Tail(hwxnet_entry.pinyin))

----------------------------------------------------------------------------
(* Phonetic index *)

\* tone if tone is not None and tone != 0 else 5
ToneBucket(tone) == IF tone # NoTone /\ tone # 0 THEN tone ELSE 5

\* by_base_tone[(base, t)].append(py) on an insertion-ordered mapping, kept as
\* a sequence of [base, tone, list] entries.
RECURSIVE AppendToBucket(_, _, _, _)
AppendToBucket(by_base_tone, base, t, py) ==
    IF by_base_tone = <<>> THEN << [base |-> base, tone |-> t, list |-> <<py>>] >>
    ELSE IF Head(by_base_tone).base = base /\ Head(by_base_tone).tone = t
    THEN << [Head(by_base_tone) EXCEPT !.list = Append(@, py)] >> \o Tail(by_base_tone)
    ELSE << Head(by_base_tone) >> \o AppendToBucket(Tail(by_base_tone), base, t, py)

\* The inner loop of build_pinyin_index over one entry's pronunciation list.
RECURSIVE IndexPinyinList(_, _)
IndexPinyinList(pinyin_list, index) ==
    IF pinyin_list = <<>> THEN index
    ELSE LET py == strip(Head(pinyin_list))
         IN  IF py = <<>> \/ InSeq(py, index.all_pinyin)
             THEN IndexPinyinList(Tail(pinyin_list), index)
             ELSE LET bt == pinyin_to_base_and_tone(py)
                  IN  IndexPinyinList(Tail(pinyin_list),
                        [by_base_tone |->
                             IF bt.base # NoBase
                             THEN AppendToBucket(index.by_base_tone, bt.base,
                                                 ToneBucket(bt.tone), py)
                             ELSE index.by_base_tone,
                         all_pinyin |-> Append(index.all_pinyin, py)])

RECURSIVE IndexEntries(_, _, _)
IndexEntries(lookup, order, index) ==
    IF order = <<>> THEN index
    ELSE IndexEntries(lookup, Tail(order), IndexPinyinList(lookup[Head(order)].pinyin, index))

\* pinyin_recall.py build_pinyin_index
build_pinyin_index(lookup, order) ==
    IndexEntries(lookup, order, [by_base_tone |-> <<>>, all_pinyin |-> <<>>])

\* _PINYIN_INDEX_CACHE = None
NoIndexCache == [built |-> FALSE, by_base_tone |-> <<>>, all_pinyin |-> <<>>]

\* pinyin_recall.py get_or_build_pinyin_index: the cache after the call.
get_or_build_pinyin_index(cache, lookup, order) ==
    IF ~cache.built
    THEN LET index == build_pinyin_index(lookup, order)
         IN  [built |-> TRUE, by_base_tone |-> index.by_base_tone,
              all_pinyin |-> index.all_pinyin]
    ELSE cache

----------------------------------------------------------------------------
(* Random generators *)

RngModulus == 3

\* One draw of a generator in state s: _randbelow(n) and the state it leaves.
randbelow(s, n) == [value |-> s % n, state |-> (s + 1) % RngModulus]

\* random.shuffle / Random.shuffle: for i in reversed(range(1, len(x))):
\* j = randbelow(i + 1); x[i], x[j] = x[j], x[i]   (positions are 1-based here)
RECURSIVE ShuffleFrom(_, _, _)
ShuffleFrom(x, i, s) ==
    IF i < 2 THEN [list |-> x, state |-> s]
    ELSE LET d == randbelow(s, i)
             j == d.value + 1
         IN  ShuffleFrom([x EXCEPT ![i] = x[j], ![j] = x[i]], i - 1, d.state)

shuffle(x, s) == ShuffleFrom(x, Len(x), s)

Dates == {"2026-01-01", "2026-01-02"}

\* random.Random(hashlib.sha256(f"{user_id}:{date_str}".encode()).hexdigest()):
\* the generator state the seed string determines.
SeedTable == [u1 |-> [d1 |-> 2, d2 |-> 4]]

seeded_random(user_id, date_str) ==
    SeedTable[user_id][IF date_str = "2026-01-01" THEN "d1" ELSE "d2"] % RngModulus

----------------------------------------------------------------------------
(* Sorting *)

\* list.sort(key=...) / sorted(..., key=...): stable, on [k1, k2, item]
\* records compared by (k1, k2).
KeyLeq(a, b) == a.k1 < b.k1 \/ (a.k1 = b.k1 /\ a.k2 <= b.k2)

RECURSIVE InsertStable(_, _)
InsertStable(sorted, x) ==
    IF sorted = <<>> THEN <<x>>
    ELSE IF KeyLeq(Head(sorted), x) THEN <<Head(sorted)>> \o InsertStable(Tail(sorted), x)
    ELSE <<x>> \o sorted

RECURSIVE StableSortFrom(_, _)
StableSortFrom(keyed, sorted) ==
    IF keyed = <<>> THEN sorted
    ELSE StableSortFrom(Tail(keyed), InsertStable(sorted, Head(keyed)))

StableSort(keyed) == StableSortFrom(keyed, <<>>)

Items(keyed) == [i \in 1..Len(keyed) |-> keyed[i].item]

\* list[:n]
Take(list, n) == SubSeq(list, 1, Min(Max(n, 0), Len(list)))

----------------------------------------------------------------------------
(* Stem words *)

\* Append the words of `more` not yet in `combined`.
RECURSIVE AppendNew(_, _)
AppendNew(combined, more) ==
    IF more = <<>> THEN combined
    ELSE AppendNew(IF Head(more) = "" \/ InSeq(Head(more), combined)
                   THEN combined ELSE Append(combined, Head(more)),
                   Tail(more))

\* pinyin_recall.py get_stem_words
get_stem_words(character, lookup, max_words) ==
    LET feng_words == lookup[character].Words
        hwxnet_words == AppendNew(<<>>, lookup[character].liCi)
        combined == feng_words \o
            SelectSeq(hwxnet_words, LAMBDA w : ~InSeq(w, feng_words))
        keyed == [i \in 1..Len(combined) |->
                     [k1 |-> Len(combined[i]), k2 |-> 0, item |-> combined[i]]]
    IN  Take(Items(StableSort(keyed)), max_words)

----------------------------------------------------------------------------
(* Distractors *)

\* Faulty variant of Collect: the exclusion set is not consulted.
RECURSIVE CollectIgnoringExclude(_, _, _, _)
CollectIgnoringExclude(list, result, exclude, count) ==
    IF list = <<>> THEN [result |-> result, returned |-> FALSE]
    ELSE IF ~InSeq(Head(list), result)
    THEN IF Len(result) + 1 >= count
         THEN [result |-> Append(result, Head(list)), returned |-> TRUE]
         ELSE CollectIgnoringExclude(Tail(list), Append(result, Head(list)), exclude, count)
    ELSE CollectIgnoringExclude(Tail(list), result, exclude, count)

\* The append loop shared by the three tiers of build_distractors: scan
\* `list`, append each pronunciation that is neither excluded nor already in
\* the result, and return as soon as an append brings the result to `count`
\* entries (returned = the function returned from inside the loop).
RECURSIVE Collect(_, _, _, _)
Collect(list, result, exclude, count) ==
    IF list = <<>> THEN [result |-> result, returned |-> FALSE]
    ELSE IF lower(strip(Head(list))) \notin exclude /\ ~InSeq(Head(list), result)
    THEN IF Len(result) + 1 >= count
         THEN [result |-> Append(result, Head(list)), returned |-> TRUE]
         ELSE Collect(Tail(list), Append(result, Head(list)), exclude, count)
    ELSE Collect(Tail(list), result, exclude, count)

\* pinyin_by_base_tone.get((base, t), [])
Bucket(by_base_tone, base, t) ==
    LET hits == SelectSeq(by_base_tone, LAMBDA e : e.base = base /\ e.tone = t)
    IN  IF hits = <<>> THEN <<>> ELSE hits[1].list

RECURSIVE Concat(_)
Concat(lists) == IF lists = <<>> THEN <<>> ELSE Head(lists) \o Concat(Tail(lists))

\* Faulty variant of SameBaseOtherTone: the tier supplies nothing.
SameBaseTierSkipped(by_base_tone, base, tone_val) == <<>>

\* Tier 1: same syllable, the tones 1..5 other than the correct one's, in order.
SameBaseOtherTone(by_base_tone, base, tone_val) ==
    IF base = NoBase THEN <<>>
    ELSE Concat([t \in 1..5 |->
                    IF t = tone_val THEN <<>> ELSE Bucket(by_base_tone, base, t)])

\* Tier 2: same tone, other syllables, in the mapping's iteration order.
SameToneOtherBase(by_base_tone, base, tone_val) ==
    Concat([i \in 1..Len(by_base_tone) |->
               IF by_base_tone[i].tone # tone_val \/ by_base_tone[i].base = base
               THEN <<>> ELSE by_base_tone[i].list])

\* pinyin_recall.py build_distractors. global_rng is the state of the
\* module-level generator of `random`, which the fallback tier shuffles with;
\* the result carries the state the call leaves it in.
build_distractors(correct_pinyin, other_pronunciations, by_base_tone, all_pinyin, count, global_rng) ==
    LET exclude == {lower(strip(correct_pinyin))} \cup
                   {lower(strip(other_pronunciations[i])) :
                        i \in 1..Len(other_pronunciations)}
        bt == pinyin_to_base_and_tone(correct_pinyin)
        tone_val == ToneBucket(bt.tone)
        tier1 == Collect(SameBaseOtherTone(by_base_tone, bt.base, tone_val),
                         <<>>, exclude, count)
        tier2 == Collect(SameToneOtherBase(by_base_tone, bt.base, tone_val),
                         tier1.result, exclude, count)
        shuffled == shuffle(all_pinyin, global_rng)
        tier3 == Collect(shuffled.list, tier2.result, exclude, count)
    IN  IF tier1.returned
        THEN [result |-> tier1.result, global_random |-> global_rng, tier |-> 1]
        ELSE IF tier2.returned
        THEN [result |-> tier2.result, global_random |-> global_rng, tier |-> 2]
        ELSE [result |-> tier3.result, global_random |-> shuffled.state, tier |-> 3]

----------------------------------------------------------------------------
(* Session queue *)

CATEGORY_NEW == "new"
CATEGORY_CONFIRM == "confirm"
CATEGORY_REVISE == "revise"

ZIBIAO_EXPAND_MASTERED_STEP == 200
ZIBIAO_EXPAND_POOL_STEP == 500
PROFICIENCY_MIN_SCORE == 10
DefaultZibiaoMin == 1
DefaultZibiaoMax == 500
PoolBase == 500
MaxZibiaoFallback == 7000
DistractorCount == 3
MaxStemWords == 3

\* Faulty variant of category_for_character: the empty-state test is missing.
category_without_empty_test(state) ==
    LET total_answered ==
            state.total_correct + state.total_wrong + state.total_i_dont_know
    IN  IF total_answered > 0
        THEN IF state.total_wrong + state.total_i_dont_know > 0
             THEN CATEGORY_REVISE ELSE CATEGORY_CONFIRM
        ELSE IF state.stage > 0 \/ state.next_due_utc # NoDue
             THEN CATEGORY_CONFIRM ELSE CATEGORY_REVISE

\* pinyin_recall.py _category_for_character
category_for_character(state) ==
    IF ~state.present THEN CATEGORY_NEW
    ELSE LET total_answered ==
                 state.total_correct + state.total_wrong + state.total_i_dont_know
         IN  IF total_answered > 0
             THEN IF state.total_wrong + state.total_i_dont_know > 0
                  THEN CATEGORY_REVISE ELSE CATEGORY_CONFIRM
             ELSE IF state.stage > 0 \/ state.next_due_utc # NoDue
                  THEN CATEGORY_CONFIRM ELSE CATEGORY_REVISE

SetMax(S) == CHOOSE x \in S : \A y \in S : y <= x

\* Faulty variant of zibiao_max_effective: the expanded bound is not capped
\* by the highest rank of the corpus.
zibiao_max_without_corpus_cap(user_state, other_mastered, lookup, zibiao_max) ==
    LET mastered_count ==
            Cardinality({ch \in DOMAIN user_state :
                            user_state[ch].present
                            /\ user_state[ch].score >= PROFICIENCY_MIN_SCORE})
            + other_mastered
        tier == mastered_count \div ZIBIAO_EXPAND_MASTERED_STEP
    IN  Max(zibiao_max, PoolBase + tier * ZIBIAO_EXPAND_POOL_STEP)

\* build_session_queue lines 229-248: the upper rank bound of the pool.
\* other_mastered counts the rows of user_state beyond the modelled characters.
zibiao_max_effective(user_state, other_mastered, lookup, zibiao_max) ==
    LET mastered_count ==
            Cardinality({ch \in DOMAIN user_state :
                            user_state[ch].present
                            /\ user_state[ch].score >= PROFICIENCY_MIN_SCORE})
            + other_mastered
        max_zibiao_in_corpus ==
            SetMax({0} \cup {lookup[ch].zibiao_index : ch \in
                       {c \in DOMAIN lookup : lookup[c].zibiao_index # NoIndex}})
        tier == mastered_count \div ZIBIAO_EXPAND_MASTERED_STEP
    IN  Max(zibiao_max,
            Min(IF max_zibiao_in_corpus # 0 THEN max_zibiao_in_corpus ELSE MaxZibiaoFallback,
                PoolBase + tier * ZIBIAO_EXPAND_POOL_STEP))

\* Faulty variant of sorted_candidates: the pool keeps the mapping's
\* iteration order.
candidates_in_iteration_order(lookup, order, zibiao_min, zibiao_max_eff) ==
    SelectSeq(order, LAMBDA ch :
        /\ lookup[ch].zibiao_index # NoIndex
        /\ zibiao_min <= lookup[ch].zibiao_index
        /\ lookup[ch].zibiao_index <= zibiao_max_eff)

\* build_session_queue lines 253-270: the candidate pool, sorted by
\* (zibiao_index, character).
sorted_candidates(lookup, order, zibiao_min, zibiao_max_eff) ==
    LET in_pool == SelectSeq(order, LAMBDA ch :
                       /\ lookup[ch].zibiao_index # NoIndex
                       /\ zibiao_min <= lookup[ch].zibiao_index
                       /\ lookup[ch].zibiao_index <= zibiao_max_eff)
        keyed == [i \in 1..Len(in_pool) |->
                     [k1 |-> lookup[in_pool[i]].zibiao_index,
                      k2 |-> CodePoint[in_pool[i]], item |-> in_pool[i]]]
    IN  Items(StableSort(keyed))

\* Faulty variant of IsFutureDue: the comparison is inverted.
IsFutureDueInverted(state, now_ts) ==
    state.next_due_utc # NoDue /\ state.next_due_utc < now_ts

\* build_session_queue line 281: next_due is not None and next_due > now_ts
IsFutureDue(state, now_ts) ==
    state.next_due_utc # NoDue /\ state.next_due_utc > now_ts

\* build_session_queue line 283: state and (next_due is None or next_due <= now_ts)
IsDueItem(state, now_ts) ==
    state.present /\ (state.next_due_utc = NoDue \/ state.next_due_utc <= now_ts)

\* build_session_queue lines 278-286
due_items_of(candidates, user_state, now_ts) ==
    SelectSeq(candidates, LAMBDA ch :
        ~IsFutureDue(user_state[ch], now_ts) /\ IsDueItem(user_state[ch], now_ts))

new_items_of(candidates, user_state, now_ts) ==
    SelectSeq(candidates, LAMBDA ch :
        ~IsFutureDue(user_state[ch], now_ts) /\ ~IsDueItem(user_state[ch], now_ts))

\* Faulty variant of sort_due_by_score: strongest mastery first.
sort_due_by_score_descending(due_items, user_state) ==
    Items(StableSort([i \in 1..Len(due_items) |->
              [k1 |-> 0 - user_state[due_items[i]].score, k2 |-> 0, item |-> due_items[i]]]))

\* build_session_queue line 289: due_items.sort(key=score)
sort_due_by_score(due_items, user_state) ==
    Items(StableSort([i \in 1..Len(due_items) |->
              [k1 |-> user_state[due_items[i]].score, k2 |-> 0, item |-> due_items[i]]]))

\* build_session_queue lines 294-301: fill the queue from the new items.
RECURSIVE FillFromNew(_, _, _)
FillFromNew(queue, new_items, need) ==
    IF new_items = <<>> \/ need <= 0 THEN queue
    ELSE IF InSeq(Head(new_items), queue) THEN FillFromNew(queue, Tail(new_items), need)
    ELSE FillFromNew(Append(queue, Head(new_items)), Tail(new_items), need - 1)

\* Faulty variant of AssembleItems: the loop ends at the first character
\* without a correct pronunciation.
RECURSIVE AssembleItemsUntilDefect(_, _, _, _, _)
AssembleItemsUntilDefect(queue, user_state, lookup, index, acc) ==
    IF queue = <<>> THEN acc
    ELSE LET ch == Head(queue)
             correct == get_correct_pinyin(lookup[ch])
         IN  IF correct = <<>> THEN acc
             ELSE LET other == get_other_pronunciations(lookup[ch])
                      d == build_distractors(correct, other, index.by_base_tone,
                                             index.all_pinyin, DistractorCount,
                                             acc.global_random)
                      choices == shuffle(<<correct>> \o Take(d.result, 3), acc.rng)
                      item == [character |-> ch,
                               stem_words |-> get_stem_words(ch, lookup, MaxStemWords),
                               correct_pinyin |-> correct,
                               choices |-> choices.list,
                               prompt_type |-> "hanzi_to_pinyin",
                               category |-> category_for_character(user_state[ch])]
                  IN  AssembleItemsUntilDefect(Tail(queue), user_state, lookup, index,
                        [items_out |-> Append(acc.items_out, item),
                         distractor_calls |-> Append(acc.distractor_calls,
                             [character |-> ch, correct_pinyin |-> correct,
                              other_pronunciations |-> other,
                              result |-> d.result, tier |-> d.tier]),
                         rng |-> choices.state,
                         global_random |-> d.global_random])

\* build_session_queue lines 304-325: one drill item per queued character
\* that has a correct pronunciation. acc carries items_out, the arguments and
\* result of every build_distractors call, and both generator states.
RECURSIVE AssembleItems(_, _, _, _, _)
AssembleItems(queue, user_state, lookup, index, acc) ==
    IF queue = <<>> THEN acc
    ELSE LET ch == Head(queue)
             correct == get_correct_pinyin(lookup[ch])
         IN  IF correct = <<>>
             THEN AssembleItems(Tail(queue), user_state, lookup, index, acc)
             ELSE LET other == get_other_pronunciations(lookup[ch])
                      d == build_distractors(correct, other, index.by_base_tone,
                                             index.all_pinyin, DistractorCount,
                                             acc.global_random)
                      choices == shuffle(<<correct>> \o Take(d.result, 3), acc.rng)
                      item == [character |-> ch,
                               stem_words |-> get_stem_words(ch, lookup, MaxStemWords),
                               correct_pinyin |-> correct,
                               choices |-> choices.list,
                               prompt_type |-> "hanzi_to_pinyin",
                               category |-> category_for_character(user_state[ch])]
                  IN  AssembleItems(Tail(queue), user_state, lookup, index,
                        [items_out |-> Append(acc.items_out, item),
                         distractor_calls |-> Append(acc.distractor_calls,
                             [character |-> ch, correct_pinyin |-> correct,
                              other_pronunciations |-> other,
                              result |-> d.result, tier |-> d.tier]),
                         rng |-> choices.state,
                         global_random |-> d.global_random])

\* pinyin_recall.py build_session_queue. The result carries the returned
\* items_out, the intermediate lists, the index cache and the state of the
\* module-level generator the call leaves behind.
build_session_queue(user_id, date_str, user_state, other_mastered, lookup, order, cache, zibiao_min, zibiao_max, due_first, total_target, now_ts, global_rng) ==
    LET zmax == zibiao_max_effective(user_state, other_mastered, lookup, zibiao_max)
        rng0 == seeded_random(user_id, date_str)
        candidates == shuffle(sorted_candidates(lookup, order, zibiao_min, zmax), rng0)
        index == get_or_build_pinyin_index(cache, lookup, order)
        due_items == sort_due_by_score(due_items_of(candidates.list, user_state, now_ts),
                                       user_state)
        new_items == shuffle(new_items_of(candidates.list, user_state, now_ts),
                             candidates.state)
        due_taken == Take(due_items, due_first)
        queue == FillFromNew(due_taken, new_items.list, total_target - Len(due_taken))
        out == AssembleItems(queue, user_state, lookup, index,
                   [items_out |-> <<>>, distractor_calls |-> <<>>,
                    rng |-> new_items.state, global_random |-> global_rng])
    IN  [items_out |-> out.items_out,
         distractor_calls |-> out.distractor_calls,
         zibiao_max_effective |-> zmax,
         candidates |-> candidates.list,
         due_items |-> due_items,
         new_items |-> new_items.list,
         queue |-> queue,
         cache |-> index,
         global_random |-> out.global_random]

----------------------------------------------------------------------------
(* Answer processors *)

\* Python list indexing STAGE_INTERVAL_DAYS[stage] is 0-based.
IntervalDays(ladder, stage) == ladder[stage + 1]

\* Faulty variants of upsert_pinyin_recall_character_bank.
upsert_score_uncapped(row, correct, i_dont_know, now_ts) ==
    LET stage == IF i_dont_know \/ ~correct THEN 0
                 ELSE Min(row.stage + 1, PINYIN_RECALL_MAX_STAGE)
    IN  [present |-> TRUE,
         score |-> IF correct THEN row.score + PINYIN_RECALL_SCORE_CORRECT_DELTA
                   ELSE Max(row.score - PINYIN_RECALL_SCORE_WRONG_DELTA, PINYIN_RECALL_SCORE_MIN),
         stage |-> stage,
         next_due_utc |-> IF i_dont_know \/ ~correct THEN NoDue
                          ELSE now_ts + IntervalDays(PINYIN_RECALL_STAGE_INTERVAL_DAYS, stage) * SecondsPerDay,
         total_correct |-> IF correct THEN row.total_correct + 1 ELSE row.total_correct,
         total_wrong |-> IF ~correct /\ ~i_dont_know THEN row.total_wrong + 1 ELSE row.total_wrong,
         total_i_dont_know |-> IF ~correct /\ i_dont_know THEN row.total_i_dont_know + 1
                               ELSE row.total_i_dont_know]

upsert_reset_ignores_i_dont_know(row, correct, i_dont_know, now_ts) ==
    LET stage == IF ~correct THEN 0 ELSE Min(row.stage + 1, PINYIN_RECALL_MAX_STAGE)
    IN  [present |-> TRUE,
         score |-> IF correct
                   THEN Min(row.score + PINYIN_RECALL_SCORE_CORRECT_DELTA, PINYIN_RECALL_SCORE_MAX)
                   ELSE Max(row.score - PINYIN_RECALL_SCORE_WRONG_DELTA, PINYIN_RECALL_SCORE_MIN),
         stage |-> stage,
         next_due_utc |-> IF ~correct THEN NoDue
                          ELSE now_ts + IntervalDays(PINYIN_RECALL_STAGE_INTERVAL_DAYS, stage) * SecondsPerDay,
         total_correct |-> IF correct THEN row.total_correct + 1 ELSE row.total_correct,
         total_wrong |-> IF ~correct /\ ~i_dont_know THEN row.total_wrong + 1 ELSE row.total_wrong,
         total_i_dont_know |-> IF ~correct /\ i_dont_know THEN row.total_i_dont_know + 1
                               ELSE row.total_i_dont_know]

upsert_interval_of_old_stage(row, correct, i_dont_know, now_ts) ==
    LET stage == IF i_dont_know \/ ~correct THEN 0
                 ELSE Min(row.stage + 1, PINYIN_RECALL_MAX_STAGE)
        days == IntervalDays(PINYIN_RECALL_STAGE_INTERVAL_DAYS, row.stage)
    IN  [present |-> TRUE,
         score |-> IF correct
                   THEN Min(row.score + PINYIN_RECALL_SCORE_CORRECT_DELTA, PINYIN_RECALL_SCORE_MAX)
                   ELSE Max(row.score - PINYIN_RECALL_SCORE_WRONG_DELTA, PINYIN_RECALL_SCORE_MIN),
         stage |-> stage,
         next_due_utc |-> IF i_dont_know \/ ~correct THEN NoDue
                          ELSE IF days = 0 THEN now_ts + SameSessionDelay
                          ELSE now_ts + days * SecondsPerDay,
         total_correct |-> IF correct THEN row.total_correct + 1 ELSE row.total_correct,
         total_wrong |-> IF ~correct /\ ~i_dont_know THEN row.total_wrong + 1 ELSE row.total_wrong,
         total_i_dont_know |-> IF ~correct /\ i_dont_know THEN row.total_i_dont_know + 1
                               ELSE row.total_i_dont_know]

\* Faulty variant of upsert_pinyin_recall_character_bank: the counters of the
\* row read are written back without the increment.
upsert_without_counter_increment(row, correct, i_dont_know, now_ts) ==
    LET reset == i_dont_know \/ ~correct
        stage == IF reset THEN 0 ELSE Min(row.stage + 1, PINYIN_RECALL_MAX_STAGE)
        days == IntervalDays(PINYIN_RECALL_STAGE_INTERVAL_DAYS, stage)
    IN  [present |-> TRUE,
         score |-> IF correct
                   THEN Min(row.score + PINYIN_RECALL_SCORE_CORRECT_DELTA, PINYIN_RECALL_SCORE_MAX)
                   ELSE Max(row.score - PINYIN_RECALL_SCORE_WRONG_DELTA, PINYIN_RECALL_SCORE_MIN),
         stage |-> stage,
         next_due_utc |-> IF reset THEN NoDue
                          ELSE IF days = 0 THEN now_ts + SameSessionDelay
                          ELSE now_ts + days * SecondsPerDay,
         total_correct |-> row.total_correct,
         total_wrong |-> row.total_wrong,
         total_i_dont_know |-> row.total_i_dont_know]

\* database.py upsert_pinyin_recall_character_bank: the row written for
\* (user_id, character) given the row read (NoRecord when the SELECT finds none).
upsert_pinyin_recall_character_bank(row, correct, i_dont_know, now_ts) ==
    LET score_before == row.score
        total_correct == IF correct THEN row.total_correct + 1 ELSE row.total_correct
        total_i_dont_know ==
            IF ~correct /\ i_dont_know THEN row.total_i_dont_know + 1
            ELSE row.total_i_dont_know
        total_wrong ==
            IF ~correct /\ ~i_dont_know THEN row.total_wrong + 1 ELSE row.total_wrong
        score_after ==
            IF correct
            THEN Min(score_before + PINYIN_RECALL_SCORE_CORRECT_DELTA, PINYIN_RECALL_SCORE_MAX)
            ELSE Max(score_before - PINYIN_RECALL_SCORE_WRONG_DELTA, PINYIN_RECALL_SCORE_MIN)
        stage ==
            IF i_dont_know \/ ~correct THEN 0
            ELSE Min(row.stage + 1, PINYIN_RECALL_MAX_STAGE)
        days == IntervalDays(PINYIN_RECALL_STAGE_INTERVAL_DAYS, stage)
        next_due_utc ==
            IF i_dont_know \/ ~correct THEN NoDue
            ELSE IF days = 0 THEN now_ts + SameSessionDelay
            ELSE now_ts + days * SecondsPerDay
    IN  [present |-> TRUE, score |-> score_after, stage |-> stage,
         next_due_utc |-> next_due_utc, total_correct |-> total_correct,
         total_wrong |-> total_wrong, total_i_dont_know |-> total_i_dont_know]

\* database.py upsert_pinyin_recall_answer_and_log: the character-bank row it
\* writes (the item_answered log row carries no scheduling state).
upsert_pinyin_recall_answer_and_log(row, correct, i_dont_know, now_ts) ==
    LET score_before == row.score
        total_correct == IF correct THEN row.total_correct + 1 ELSE row.total_correct
        total_i_dont_know ==
            IF ~correct /\ i_dont_know THEN row.total_i_dont_know + 1
            ELSE row.total_i_dont_know
        total_wrong ==
            IF ~correct /\ ~i_dont_know THEN row.total_wrong + 1 ELSE row.total_wrong
        score_after ==
            IF correct
            THEN Min(score_before + PINYIN_RECALL_SCORE_CORRECT_DELTA, PINYIN_RECALL_SCORE_MAX)
            ELSE Max(score_before - PINYIN_RECALL_SCORE_WRONG_DELTA, PINYIN_RECALL_SCORE_MIN)
        stage ==
            IF i_dont_know \/ ~correct THEN 0
            ELSE Min(row.stage + 1, PINYIN_RECALL_MAX_STAGE)
        days == IntervalDays(PINYIN_RECALL_STAGE_INTERVAL_DAYS, stage)
        next_due_utc ==
            IF i_dont_know \/ ~correct THEN NoDue
            ELSE IF days = 0 THEN now_ts + SameSessionDelay
            ELSE now_ts + days * SecondsPerDay
    IN  [present |-> TRUE, score |-> score_after, stage |-> stage,
         next_due_utc |-> next_due_utc, total_correct |-> total_correct,
         total_wrong |-> total_wrong, total_i_dont_know |-> total_i_dont_know]

\* Faulty variant of update_learning_state: the reset branch forgets to clear next_due_utc.
update_learning_state_keeps_next_due(char_state, correct, i_dont_know, now_ts) ==
    LET stage == Min(char_state.stage + 1, MAX_STAGE)
        reset == i_dont_know \/ ~correct
    IN  [present |-> TRUE, score |-> 0,
         stage |-> IF reset THEN 0 ELSE stage,
         next_due_utc |-> IF reset THEN char_state.next_due_utc
                          ELSE now_ts + IntervalDays(STAGE_INTERVAL_DAYS, stage) * SecondsPerDay,
         total_correct |-> IF correct THEN char_state.total_correct + 1
                           ELSE char_state.total_correct,
         total_wrong |-> IF ~correct /\ ~i_dont_know THEN char_state.total_wrong + 1
                         ELSE char_state.total_wrong,
         total_i_dont_know |-> IF ~correct /\ i_dont_know THEN char_state.total_i_dont_know + 1
                               ELSE char_state.total_i_dont_know]

\* Faulty variant of update_learning_state: every correct answer is scheduled
\* with the same-session delay instead of the ladder interval.
update_learning_state_minute_delay(char_state, correct, i_dont_know, now_ts) ==
    LET stage == Min(char_state.stage + 1, MAX_STAGE)
        reset == i_dont_know \/ ~correct
    IN  [present |-> TRUE, score |-> 0,
         stage |-> IF reset THEN 0 ELSE stage,
         next_due_utc |-> IF reset THEN NoDue ELSE now_ts + SameSessionDelay,
         total_correct |-> IF correct THEN char_state.total_correct + 1
                           ELSE char_state.total_correct,
         total_wrong |-> IF ~correct /\ ~i_dont_know THEN char_state.total_wrong + 1
                         ELSE char_state.total_wrong,
         total_i_dont_know |-> IF ~correct /\ i_dont_know THEN char_state.total_i_dont_know + 1
                               ELSE char_state.total_i_dont_know]

\* Faulty variant of update_learning_state: an unknown answer is counted as a
\* wrong one.
update_learning_state_unknown_as_wrong(char_state, correct, i_dont_know, now_ts) ==
    LET stage == Min(char_state.stage + 1, MAX_STAGE)
        days == IntervalDays(STAGE_INTERVAL_DAYS, stage)
        reset == i_dont_know \/ ~correct
    IN  [present |-> TRUE, score |-> 0,
         stage |-> IF reset THEN 0 ELSE stage,
         next_due_utc |-> IF reset THEN NoDue
                          ELSE IF days = 0 THEN now_ts + SameSessionDelay
                          ELSE now_ts + days * SecondsPerDay,
         total_correct |-> IF correct THEN char_state.total_correct + 1
                           ELSE char_state.total_correct,
         total_wrong |-> IF ~correct THEN char_state.total_wrong + 1
                         ELSE char_state.total_wrong,
         total_i_dont_know |-> char_state.total_i_dont_know]

\* pinyin_recall.py update_learning_state: the dict left for (user_id, character).
\* The in-memory dict has no "score" key; every reader defaults it to 0.
update_learning_state(char_state, correct, i_dont_know, now_ts) ==
    LET total_correct ==
            IF correct THEN char_state.total_correct + 1 ELSE char_state.total_correct
        total_i_dont_know ==
            IF ~correct /\ i_dont_know THEN char_state.total_i_dont_know + 1
            ELSE char_state.total_i_dont_know
        total_wrong ==
            IF ~correct /\ ~i_dont_know THEN char_state.total_wrong + 1
            ELSE char_state.total_wrong
        stage == Min(char_state.stage + 1, MAX_STAGE)
        days == IntervalDays(STAGE_INTERVAL_DAYS, stage)
        next_ts ==
            IF days = 0 THEN now_ts + SameSessionDelay ELSE now_ts + days * SecondsPerDay
    IN  IF i_dont_know \/ ~correct
        THEN [present |-> TRUE, score |-> 0, stage |-> 0, next_due_utc |-> NoDue,
              total_correct |-> total_correct, total_wrong |-> total_wrong,
              total_i_dont_know |-> total_i_dont_know]
        ELSE [present |-> TRUE, score |-> 0, stage |-> stage, next_due_utc |-> next_ts,
              total_correct |-> total_correct, total_wrong |-> total_wrong,
              total_i_dont_know |-> total_i_dont_know]

\* app.py _get_pinyin_recall_learning_state: the store the queue builder reads.
get_pinyin_recall_learning_state == IF USE_DATABASE THEN bank ELSE learning_state

NoAnswer ==
    [seq |-> 0, user_id |-> "u1", character |-> "A",
     correct |-> FALSE, i_dont_know |-> FALSE, now_ts |-> 0, before |-> NoRecord]

NoSession ==
    [built |-> FALSE, user_id |-> "u1", date_str |-> "2026-01-01", due_first |-> 0,
     total_target |-> 0, global_random |-> 0,
     items_out |-> <<>>, distractor_calls |-> <<>>, queue |-> <<>>,
     due_items |-> <<>>, new_items |-> <<>>, candidates |-> <<>>,
     zibiao_max_effective |-> 0]

NoCall ==
    [done |-> FALSE, correct_pinyin |-> <<>>, other_pronunciations |-> <<>>,
     count |-> 0, result |-> <<>>, tier |-> 0]

\* Request threads of the server process that call build_session_queue.
Threads == {"t1", "t2", "t3"}

\* No request has entered build_session_queue; _PINYIN_INDEX_CACHE is None
\* (published = 0) and build_pinyin_index has not run.
NoIndexCalls ==
    [pc |-> [t \in Threads |-> "idle"],
     date_str |-> [t \in Threads |-> ""],
     built |-> [t \in Threads |-> 0],
     used |-> [t \in Threads |-> 0],
     build_runs |-> 0,
     published |-> 0]

\* Request threads of the server process that submit answers, and the
\* characters they answer.
SubmitThreads == {"s1", "s2"}
SubmitCharacters == {"A", "B"}

\* No answer request has been received.
NoSubmissions ==
    [pc |-> [t \in SubmitThreads |-> "idle"],
     character |-> [t \in SubmitThreads |-> "A"],
     correct |-> [t \in SubmitThreads |-> FALSE],
     i_dont_know |-> [t \in SubmitThreads |-> FALSE],
     row |-> [t \in SubmitThreads |-> NoRecord],
     started |-> 0,
     completed |-> [ch \in SubmitCharacters |-> 0],
     overlapped |-> [ch \in SubmitCharacters |-> FALSE],
     score |-> [ch \in SubmitCharacters |-> 0]]

\* No session has been asked for.
NoDrill == [pending |-> <<>>, queued |-> {}, left_out |-> {}, correct_given |-> 0]

\* No query has been made.
NoQuery ==
    [raw |-> <<>>, parsed |-> FALSE, result |-> Rejected,
     normalized |-> FALSE, normal |-> [base |-> NoBase, tone |-> NoTone]]

\* The row / dict currently held for the character of the latest answer call.
AnsweredRecord ==
    get_pinyin_recall_learning_state[last_answer.user_id][last_answer.character]

----------------------------------------------------------------------------
(* Actions *)

\* State after import: both stores empty, no index cached, the module-level
\* generator seeded from OS entropy.
Init ==
    /\ USE_DATABASE \in BOOLEAN
    /\ bank = [u \in Users |-> [ch \in Characters |-> NoRecord]]
    /\ learning_state = [u \in Users |-> [ch \in Characters |-> NoRecord]]
    /\ now = 0
    /\ last_answer = NoAnswer
    /\ PINYIN_INDEX_CACHE = NoIndexCache
    /\ global_random \in 0..(RngModulus - 1)
    /\ session = NoSession
    /\ corpus = [lookup |-> hwxnet_lookup, order |-> CorpusOrder]
    /\ mastered_elsewhere = [u \in Users |-> 0]
    /\ distractor_call = NoCall
    /\ index_calls = NoIndexCalls
    /\ submissions = NoSubmissions
    /\ drill = NoDrill
    /\ query = NoQuery

\* The record of an answer call; the record of the latest session ends with
\* the next answer or clock reading.
AnswerRecord(user_id, character, correct, i_dont_know, before) ==
    [seq |-> last_answer.seq + 1, user_id |-> user_id, character |-> character,
     correct |-> correct, i_dont_know |-> i_dont_know,
     now_ts |-> now, before |-> before]

\* database.upsert_pinyin_recall_character_bank(user_id, character, correct, i_dont_know)
UpsertCharacterBank(user_id, character, correct, i_dont_know) ==
    /\ USE_DATABASE
    /\ bank' = [bank EXCEPT ![user_id][character] =
                   upsert_pinyin_recall_character_bank(@, correct, i_dont_know, now)]
    /\ last_answer' = AnswerRecord(user_id, character, correct, i_dont_know,
                                   bank[user_id][character])
    /\ session' = NoSession
    /\ UNCHANGED <<drill, submissions, query, index_calls, corpus, mastered_elsewhere, distractor_call, USE_DATABASE, learning_state, now, PINYIN_INDEX_CACHE, global_random>>

\* database.upsert_pinyin_recall_answer_and_log(user_id, character, correct, i_dont_know, _)
UpsertAnswerAndLog(user_id, character, correct, i_dont_know) ==
    /\ USE_DATABASE
    /\ bank' = [bank EXCEPT ![user_id][character] =
                   upsert_pinyin_recall_answer_and_log(@, correct, i_dont_know, now)]
    /\ last_answer' = AnswerRecord(user_id, character, correct, i_dont_know,
                                   bank[user_id][character])
    /\ session' = NoSession
    /\ UNCHANGED <<drill, submissions, query, index_calls, corpus, mastered_elsewhere, distractor_call, USE_DATABASE, learning_state, now, PINYIN_INDEX_CACHE, global_random>>

\* pinyin_recall.update_learning_state(_learning_state_pinyin, user_id, character, correct, i_dont_know)
UpdateLearningState(user_id, character, correct, i_dont_know) ==
    /\ ~USE_DATABASE
    /\ learning_state' = [learning_state EXCEPT ![user_id][character] =
                             update_learning_state(@, correct, i_dont_know, now)]
    /\ last_answer' = AnswerRecord(user_id, character, correct, i_dont_know,
                                   learning_state[user_id][character])
    /\ session' = NoSession
    /\ UNCHANGED <<drill, submissions, query, index_calls, corpus, mastered_elsewhere, distractor_call, USE_DATABASE, bank, now, PINYIN_INDEX_CACHE, global_random>>

\* app.py pinyin_recall_answer: POST /api/games/pinyin-recall/answer.
\* selected_matches: selected_choice equals correct_pinyin (case-insensitively).
PinyinRecallAnswer(user_id, character, selected_matches, i_dont_know) ==
    LET correct == IF i_dont_know THEN FALSE ELSE (~i_dont_know /\ selected_matches)
    IN  IF USE_DATABASE
        THEN UpsertCharacterBank(user_id, character, correct, i_dont_know)
        ELSE UpdateLearningState(user_id, character, correct, i_dont_know)

\* app.py pinyin_recall_session / pinyin_recall_next_batch: build_session_queue
\* on the store USE_DATABASE selects, zibiao_min and zibiao_max at their defaults.
BuildSessionQueue(user_id, date_str, due_first, total_target) ==
    \E r \in {build_session_queue(user_id, date_str,
                                   get_pinyin_recall_learning_state[user_id],
                                   mastered_elsewhere[user_id],
                                   corpus.lookup, corpus.order, PINYIN_INDEX_CACHE,
                                   DefaultZibiaoMin, DefaultZibiaoMax,
                                   due_first, total_target, now, global_random)} :
        /\ PINYIN_INDEX_CACHE' = r.cache
        /\ global_random' = r.global_random
        /\ session' = [built |-> TRUE,
                       user_id |-> user_id, date_str |-> date_str,
                       due_first |-> due_first, total_target |-> total_target,
                       global_random |-> global_random,
                       items_out |-> r.items_out,
                       distractor_calls |-> r.distractor_calls,
                       queue |-> r.queue, due_items |-> r.due_items,
                       new_items |-> r.new_items, candidates |-> r.candidates,
                       zibiao_max_effective |-> r.zibiao_max_effective]
        /\ UNCHANGED <<drill, submissions, query, index_calls, corpus, mastered_elsewhere, distractor_call, USE_DATABASE, bank, learning_state, now, last_answer>>

\* The clock advances to a later reading.
Tick(t) ==
    /\ t > now
    /\ now' = t
    /\ session' = NoSession
    /\ UNCHANGED <<drill, submissions, query, index_calls, corpus, mastered_elsewhere, distractor_call, USE_DATABASE, bank, learning_state, last_answer,
                   PINYIN_INDEX_CACHE, global_random>>

----------------------------------------------------------------------------
(* SpecRecord: the answer processors applied to one character's record, *)
(* any flag pair, any number of times                                    *)

RecordUser == "u1"
RecordCharacter == "A"

InitRecord == Init /\ global_random = 0

NextRecord ==
    \/ /\ last_answer.seq < MaxRecordAnswers
       /\ \E correct \in BOOLEAN, i_dont_know \in BOOLEAN :
            \/ UpsertCharacterBank(RecordUser, RecordCharacter, correct, i_dont_know)
            \/ UpsertAnswerAndLog(RecordUser, RecordCharacter, correct, i_dont_know)
            \/ UpdateLearningState(RecordUser, RecordCharacter, correct, i_dont_know)
    \/ \E t \in RecordInstants : Tick(t)

SpecRecord == InitRecord /\ [][NextRecord]_vars

----------------------------------------------------------------------------
(* Spec: the recall routes (answers, session builds) and the clock *)

Next ==
    \/ /\ last_answer.seq < MaxAnswers
       /\ \E user_id \in Users, character \in AnswerCharacters,
             selected_matches \in BOOLEAN, i_dont_know \in BOOLEAN :
            PinyinRecallAnswer(user_id, character, selected_matches, i_dont_know)
    \/ \E user_id \in Users, date_str \in Dates, size \in QueueSizes :
            BuildSessionQueue(user_id, date_str, size.due_first, size.total_target)
    \/ \E t \in Instants : Tick(t)

Spec == Init /\ [][Next]_vars

----------------------------------------------------------------------------
(* SpecQueue: session builds over several corpora and over learners whose *)
(* records the store's answer processor has written                        *)

\* The corpus of hwxnet_lookup with another iteration order of the mapping.
ReorderedCorpus ==
    [lookup |-> hwxnet_lookup, order |-> <<"F", "C", "E", "A", "D", "B">>]

\* A corpus without defects: E has a neutral-tone pronunciation.
CleanCorpus ==
    [lookup |-> [hwxnet_lookup EXCEPT !["E"].pinyin = << <<"m", "a">> >>],
     order |-> CorpusOrder]

\* A three-character corpus: too few pronunciations for three distractors.
SmallCorpus ==
    [lookup |-> [ch \in {"A", "B", "C"} |-> hwxnet_lookup[ch]],
     order |-> <<"C", "A", "B">>]

\* A corpus none of whose entries has a rank index.
UnrankedCorpus ==
    [lookup |-> [ch \in Characters |-> [hwxnet_lookup[ch] EXCEPT !.zibiao_index = NoIndex]],
     order |-> CorpusOrder]

Corpora ==
    {[lookup |-> hwxnet_lookup, order |-> CorpusOrder],
     ReorderedCorpus, CleanCorpus, SmallCorpus, UnrankedCorpus}

\* Numbers of further mastered rows of a learner of the database store.
MasteredElsewhere == {0, 199, 200}

\* The record a store holds after the route pinyin_recall_answer handled the
\* given outcomes ("c" correct, "w" wrong, "u" I don't know) at now_ts.
RECURSIVE apply_answers(_, _, _, _)
apply_answers(use_database, record, outcomes, now_ts) ==
    IF outcomes = <<>> THEN record
    ELSE LET correct == Head(outcomes) = "c"
             i_dont_know == Head(outcomes) = "u"
         IN  apply_answers(use_database,
                 IF use_database
                 THEN upsert_pinyin_recall_character_bank(record, correct, i_dont_know, now_ts)
                 ELSE update_learning_state(record, correct, i_dont_know, now_ts),
                 Tail(outcomes), now_ts)

NoHistory == [ch \in Characters |-> <<>>]

\* Answer histories of one learner, character -> outcomes, all given at time 0.
LearnerHistories ==
    {NoHistory,
     [NoHistory EXCEPT !["A"] = <<"c">>, !["B"] = <<"c", "c", "w", "c">>, !["C"] = <<"w">>],
     [NoHistory EXCEPT !["A"] = <<"c", "c">>, !["B"] = <<"c">>, !["D"] = <<"u">>, !["E"] = <<"c">>],
     [NoHistory EXCEPT !["A"] = <<"c", "c", "w", "c">>, !["B"] = <<"c", "w", "c">>,
                       !["C"] = <<"c">>, !["D"] = <<"c">>]}

StoreAfter(use_database, history) ==
    [u \in Users |-> [ch \in Characters |->
        apply_answers(use_database, NoRecord, history[ch], 0)]]

InitQueue ==
    /\ USE_DATABASE \in BOOLEAN
    /\ corpus \in Corpora
    /\ \E history \in LearnerHistories :
          /\ bank = (IF USE_DATABASE THEN StoreAfter(TRUE, history)
                     ELSE [u \in Users |-> [ch \in Characters |-> NoRecord]])
          /\ learning_state = (IF USE_DATABASE
                               THEN [u \in Users |-> [ch \in Characters |-> NoRecord]]
                               ELSE StoreAfter(FALSE, history))
    /\ mastered_elsewhere \in [Users -> IF USE_DATABASE THEN MasteredElsewhere ELSE {0}]
    /\ now = 0
    /\ last_answer = NoAnswer
    /\ PINYIN_INDEX_CACHE = NoIndexCache
    /\ global_random \in 0..(RngModulus - 1)
    /\ session = NoSession
    /\ distractor_call = NoCall
    /\ index_calls = NoIndexCalls
    /\ submissions = NoSubmissions
    /\ drill = NoDrill
    /\ query = NoQuery

\* Values of the parameters due_first and total_target of SpecQueue: those of
\* the routes and a due_first greater than total_target.
AnyQueueSizes == QueueSizes \cup {[due_first |-> 2, total_target |-> 1]}

NextQueue ==
    \/ \E user_id \in Users, date_str \in Dates, size \in AnyQueueSizes :
            BuildSessionQueue(user_id, date_str, size.due_first, size.total_target)
    \/ \E t \in Instants : Tick(t)

SpecQueue == InitQueue /\ [][NextQueue]_vars

----------------------------------------------------------------------------
(* SpecDistractors: build_distractors called directly, for the correct and *)
(* other pronunciations of any corpus entry and any count                   *)

MaxCount == 4

\* A corpus with two spellings of one syllable and tone: D is written with
\* the caron, E with the breve.
BreveCorpus ==
    [lookup |-> [hwxnet_lookup EXCEPT !["D"].pinyin = << <<"n", "i3">> >>,
                                      !["E"].pinyin = << <<"n", "i3b">> >>],
     order |-> CorpusOrder]

DistractorCorpora == Corpora \cup {BreveCorpus}

\* build_distractors(correct, other, *build_pinyin_index(hwxnet_lookup), count=count)
\* on the arguments drawn at the start.
BuildDistractors ==
    /\ ~distractor_call.done
    /\ \E index \in {build_pinyin_index(corpus.lookup, corpus.order)} :
       \E r \in {build_distractors(distractor_call.correct_pinyin, distractor_call.other_pronunciations,
                                    index.by_base_tone, index.all_pinyin,
                                    distractor_call.count, global_random)} :
          /\ distractor_call' = [distractor_call EXCEPT !.done = TRUE, !.result = r.result, !.tier = r.tier]
          /\ global_random' = r.global_random
    /\ UNCHANGED <<USE_DATABASE, bank, learning_state, now, last_answer,
                   PINYIN_INDEX_CACHE, session, corpus, mastered_elsewhere, index_calls, query, submissions, drill>>

InitDistractors ==
    /\ USE_DATABASE = FALSE
    /\ bank = [u \in Users |-> [ch \in Characters |-> NoRecord]]
    /\ learning_state = [u \in Users |-> [ch \in Characters |-> NoRecord]]
    /\ now = 0
    /\ last_answer = NoAnswer
    /\ PINYIN_INDEX_CACHE = NoIndexCache
    /\ global_random \in 0..(RngModulus - 1)
    /\ session = NoSession
    /\ corpus \in DistractorCorpora
    /\ mastered_elsewhere = [u \in Users |-> 0]
    /\ index_calls = NoIndexCalls
    /\ submissions = NoSubmissions
    /\ drill = NoDrill
    /\ query = NoQuery
    /\ \E ch \in DOMAIN corpus.lookup, count \in 0..MaxCount :
          /\ get_correct_pinyin(corpus.lookup[ch]) # <<>>
          /\ distractor_call = [NoCall EXCEPT
                        !.correct_pinyin = get_correct_pinyin(corpus.lookup[ch]),
                        !.other_pronunciations = get_other_pronunciations(corpus.lookup[ch]),
                        !.count = count]

NextDistractors == BuildDistractors

SpecDistractors == InitDistractors /\ [][NextDistractors]_vars

----------------------------------------------------------------------------
(* SpecCache: session builds of several request threads, interleaved at    *)
(* the statements of get_or_build_pinyin_index. Each run of                *)
(* build_pinyin_index makes a new dict pair, numbered by build_runs.        *)

\* pinyin_recall.py:226-273: thread t enters build_session_queue and reaches
\* the call of get_or_build_pinyin_index.
EnterBuildSessionQueue(t, date_str) ==
    /\ index_calls.pc[t] = "idle"
    /\ index_calls' = [index_calls EXCEPT !.pc[t] = "l147", !.date_str[t] = date_str]
    /\ UNCHANGED <<USE_DATABASE, bank, learning_state, now, last_answer, PINYIN_INDEX_CACHE,
                   global_random, session, corpus, mastered_elsewhere, distractor_call, query, submissions, drill>>

\* pinyin_recall.py:147: `if _PINYIN_INDEX_CACHE is None`.
TestCache(t) ==
    /\ index_calls.pc[t] = "l147"
    /\ index_calls' = [index_calls EXCEPT
                          !.pc[t] = IF index_calls.published = 0 THEN "l148_call" ELSE "l149"]
    /\ UNCHANGED <<USE_DATABASE, bank, learning_state, now, last_answer, PINYIN_INDEX_CACHE,
                   global_random, session, corpus, mastered_elsewhere, distractor_call, query, submissions, drill>>

\* pinyin_recall.py:148, right-hand side: build_pinyin_index(hwxnet_lookup) runs
\* and leaves a new instance in the thread's frame.
CallBuildPinyinIndex(t) ==
    /\ index_calls.pc[t] = "l148_call"
    /\ index_calls' = [index_calls EXCEPT
                          !.pc[t] = "l148_store",
                          !.built[t] = index_calls.build_runs + 1,
                          !.build_runs = index_calls.build_runs + 1]
    /\ UNCHANGED <<USE_DATABASE, bank, learning_state, now, last_answer, PINYIN_INDEX_CACHE,
                   global_random, session, corpus, mastered_elsewhere, distractor_call, query, submissions, drill>>

\* pinyin_recall.py:148, assignment: the global is bound to the thread's instance.
StoreCache(t) ==
    /\ index_calls.pc[t] = "l148_store"
    /\ index_calls' = [index_calls EXCEPT !.pc[t] = "l149", !.published = index_calls.built[t]]
    /\ PINYIN_INDEX_CACHE' = get_or_build_pinyin_index(NoIndexCache, corpus.lookup, corpus.order)
    /\ UNCHANGED <<USE_DATABASE, bank, learning_state, now, last_answer,
                   global_random, session, corpus, mastered_elsewhere, distractor_call, query, submissions, drill>>

\* pinyin_recall.py:149 and 274-326: the thread is handed the instance the global
\* refers to and assembles its session with it.
ReturnCacheAndAssemble(t) ==
    /\ index_calls.pc[t] = "l149"
    /\ index_calls' = [index_calls EXCEPT !.pc[t] = "done", !.used[t] = index_calls.published]
    /\ \E r \in {build_session_queue("u1", index_calls.date_str[t],
                                      get_pinyin_recall_learning_state["u1"],
                                      mastered_elsewhere["u1"],
                                      corpus.lookup, corpus.order, PINYIN_INDEX_CACHE,
                                      DefaultZibiaoMin, DefaultZibiaoMax,
                                      8, 20, now, global_random)} :
        /\ global_random' = r.global_random
        /\ session' = [built |-> TRUE,
                       user_id |-> "u1", date_str |-> index_calls.date_str[t],
                       due_first |-> 8, total_target |-> 20,
                       global_random |-> global_random,
                       items_out |-> r.items_out,
                       distractor_calls |-> r.distractor_calls,
                       queue |-> r.queue, due_items |-> r.due_items,
                       new_items |-> r.new_items, candidates |-> r.candidates,
                       zibiao_max_effective |-> r.zibiao_max_effective]
    /\ UNCHANGED <<USE_DATABASE, bank, learning_state, now, last_answer, PINYIN_INDEX_CACHE,
                   corpus, mastered_elsewhere, distractor_call, query, submissions, drill>>

\* The process after import with the in-memory store, before any request.
InitCache == Init /\ USE_DATABASE = FALSE /\ global_random = 0

NextCache ==
    \E t \in Threads :
        \/ \E date_str \in Dates : EnterBuildSessionQueue(t, date_str)
        \/ TestCache(t)
        \/ CallBuildPinyinIndex(t)
        \/ StoreCache(t)
        \/ ReturnCacheAndAssemble(t)

SpecCache == InitCache /\ [][NextCache]_vars

----------------------------------------------------------------------------
(* SpecSearch: parse_pinyin_query and pinyin_to_base_and_tone applied to  *)
(* any string of up to MaxQueryLen characters                              *)

MaxQueryLen == 3

\* The characters a query or token is written with: letters, an upper-case
\* letter, the toneless u-diaeresis, tone-marked vowels, digits inside and
\* outside "012345", a space, a tab and a punctuation mark.
QueryGlyphs == {"k", "e", "M", "v0", "e3", "a2", "3", "6", " ", "tab", "-"}

QueryStrings == UNION {[1..n -> QueryGlyphs] : n \in 0..MaxQueryLen}

\* app.py pinyin_search: parse_pinyin_query(query)
ParsePinyinQuery ==
    /\ ~query.parsed
    /\ query' = [query EXCEPT !.parsed = TRUE, !.result = parse_pinyin_query(query.raw)]
    /\ UNCHANGED <<USE_DATABASE, bank, learning_state, now, last_answer, PINYIN_INDEX_CACHE,
                   global_random, session, corpus, mastered_elsewhere, distractor_call, index_calls, submissions, drill>>

\* pinyin_to_base_and_tone(token)
PinyinToBaseAndTone ==
    /\ ~query.normalized
    /\ query' = [query EXCEPT !.normalized = TRUE, !.normal = pinyin_to_base_and_tone(query.raw)]
    /\ UNCHANGED <<USE_DATABASE, bank, learning_state, now, last_answer, PINYIN_INDEX_CACHE,
                   global_random, session, corpus, mastered_elsewhere, distractor_call, index_calls, submissions, drill>>

InitSearch ==
    /\ USE_DATABASE = FALSE
    /\ bank = [u \in Users |-> [ch \in Characters |-> NoRecord]]
    /\ learning_state = [u \in Users |-> [ch \in Characters |-> NoRecord]]
    /\ now = 0
    /\ last_answer = NoAnswer
    /\ PINYIN_INDEX_CACHE = NoIndexCache
    /\ global_random = 0
    /\ session = NoSession
    /\ corpus = [lookup |-> hwxnet_lookup, order |-> CorpusOrder]
    /\ mastered_elsewhere = [u \in Users |-> 0]
    /\ distractor_call = NoCall
    /\ index_calls = NoIndexCalls
    /\ submissions = NoSubmissions
    /\ drill = NoDrill
    /\ \E raw \in QueryStrings : query = [NoQuery EXCEPT !.raw = raw]

NextSearch == ParsePinyinQuery \/ PinyinToBaseAndTone

SpecSearch == InitSearch /\ [][NextSearch]_vars

----------------------------------------------------------------------------
(* SpecSubmit: answer submissions of several request threads for one user, *)
(* interleaved at the reads and writes of the record                        *)

MaxSubmissions == 4

SubmitUser == "u1"

\* The bookkeeping of a submission that has made its last write: one more
\* completed submission for the character, and the score its outcome leads to
\* from the score of the outcomes completed before it.
Completed(t) ==
    LET ch == submissions.character[t]
    IN  [submissions EXCEPT
            !.pc[t] = "idle",
            !.completed[ch] = @ + 1,
            !.score[ch] =
                IF submissions.correct[t]
                THEN Min(@ + PINYIN_RECALL_SCORE_CORRECT_DELTA, PINYIN_RECALL_SCORE_MAX)
                ELSE Max(@ - PINYIN_RECALL_SCORE_WRONG_DELTA, PINYIN_RECALL_SCORE_MIN)]

\* app.py:1254-1289 up to the first read of the record. With the database:
\* database.py:425-433, the SELECT of the row. In memory:
\* pinyin_recall.py:342-357, the setdefault calls and the evaluation of
\* char_state.get(counter) + 1.
BeginAnswer(t, character, selected_matches, i_dont_know) ==
    /\ submissions.pc[t] = "idle"
    /\ submissions.started < MaxSubmissions
    /\ submissions' = [submissions EXCEPT
            !.pc[t] = IF USE_DATABASE THEN "l474" ELSE "l353_store",
            !.character[t] = character,
            !.correct[t] = IF i_dont_know THEN FALSE ELSE selected_matches,
            !.i_dont_know[t] = i_dont_know,
            !.row[t] = IF USE_DATABASE THEN bank[SubmitUser][character]
                       ELSE [learning_state[SubmitUser][character] EXCEPT !.present = TRUE],
            !.started = @ + 1,
            !.overlapped[character] =
                @ \/ \E o \in SubmitThreads \ {t} :
                        submissions.pc[o] # "idle" /\ submissions.character[o] = character]
    /\ learning_state' =
          IF USE_DATABASE THEN learning_state
          ELSE [learning_state EXCEPT ![SubmitUser][character].present = TRUE]
    /\ UNCHANGED <<USE_DATABASE, bank, now, last_answer, PINYIN_INDEX_CACHE, global_random,
                   session, corpus, mastered_elsewhere, distractor_call, index_calls, query, drill>>

\* database.py:474-492: the INSERT ... ON CONFLICT DO UPDATE of the row
\* computed from the row read, and the commit.
WriteRow(t) ==
    /\ submissions.pc[t] = "l474"
    /\ bank' = [bank EXCEPT ![SubmitUser][submissions.character[t]] =
                   upsert_pinyin_recall_character_bank(submissions.row[t],
                       submissions.correct[t], submissions.i_dont_know[t], now)]
    /\ submissions' = Completed(t)
    /\ UNCHANGED <<USE_DATABASE, learning_state, now, last_answer, PINYIN_INDEX_CACHE,
                   global_random, session, corpus, mastered_elsewhere, distractor_call,
                   index_calls, query, drill>>

\* pinyin_recall.py:352-357: the store of the incremented counter.
StoreCounter(t) ==
    /\ submissions.pc[t] = "l353_store"
    /\ \E r \in {update_learning_state(submissions.row[t], submissions.correct[t],
                                        submissions.i_dont_know[t], now)} :
          learning_state' = [learning_state EXCEPT ![SubmitUser][submissions.character[t]] =
              [@ EXCEPT !.total_correct =
                            IF submissions.correct[t] THEN r.total_correct ELSE @,
                        !.total_i_dont_know =
                            IF ~submissions.correct[t] /\ submissions.i_dont_know[t]
                            THEN r.total_i_dont_know ELSE @,
                        !.total_wrong =
                            IF ~submissions.correct[t] /\ ~submissions.i_dont_know[t]
                            THEN r.total_wrong ELSE @]]
    /\ submissions' = [submissions EXCEPT !.pc[t] = "l359"]
    /\ UNCHANGED <<USE_DATABASE, bank, now, last_answer, PINYIN_INDEX_CACHE,
                   global_random, session, corpus, mastered_elsewhere, distractor_call,
                   index_calls, query, drill>>

\* pinyin_recall.py:359-364: on a miss the stores of stage 0 and next_due None
\* and the return; otherwise the read of the stage.
ResetOrReadStage(t) ==
    /\ submissions.pc[t] = "l359"
    /\ IF submissions.i_dont_know[t] \/ ~submissions.correct[t]
       THEN /\ learning_state' = [learning_state EXCEPT ![SubmitUser][submissions.character[t]] =
                    [@ EXCEPT !.stage = 0, !.next_due_utc = NoDue]]
            /\ submissions' = Completed(t)
       ELSE /\ submissions' = [submissions EXCEPT
                    !.pc[t] = "l371",
                    !.row[t] = learning_state[SubmitUser][submissions.character[t]]]
            /\ UNCHANGED learning_state
    /\ UNCHANGED <<USE_DATABASE, bank, now, last_answer, PINYIN_INDEX_CACHE,
                   global_random, session, corpus, mastered_elsewhere, distractor_call,
                   index_calls, query, drill>>

\* pinyin_recall.py:364-372: the stores of the advanced stage and of next_due.
StoreStage(t) ==
    /\ submissions.pc[t] = "l371"
    /\ \E r \in {update_learning_state(submissions.row[t], TRUE, FALSE, now)} :
          learning_state' = [learning_state EXCEPT ![SubmitUser][submissions.character[t]] =
              [@ EXCEPT !.stage = r.stage, !.next_due_utc = r.next_due_utc]]
    /\ submissions' = Completed(t)
    /\ UNCHANGED <<USE_DATABASE, bank, now, last_answer, PINYIN_INDEX_CACHE,
                   global_random, session, corpus, mastered_elsewhere, distractor_call,
                   index_calls, query, drill>>

InitSubmit == Init /\ global_random = 0

NextSubmit ==
    \E t \in SubmitThreads :
        \/ \E character \in SubmitCharacters, selected_matches \in BOOLEAN, i_dont_know \in BOOLEAN :
              BeginAnswer(t, character, selected_matches, i_dont_know)
        \/ WriteRow(t)
        \/ StoreCounter(t)
        \/ ResetOrReadStage(t)
        \/ StoreStage(t)

SpecSubmit == InitSubmit /\ [][NextSubmit]_vars

----------------------------------------------------------------------------
(* SpecBoth: the same answers, at the same clock readings, applied to one  *)
(* record by the in-memory processor and by a database processor            *)

\* Records both processors start from: no record, a record in the middle of
\* the ladder, and a record without counts.
InitialRecords ==
    {NoRecord,
     [present |-> TRUE, score |-> 0, stage |-> 3, next_due_utc |-> 86400,
      total_correct |-> 4, total_wrong |-> 1, total_i_dont_know |-> 0],
     [present |-> TRUE, score |-> 0, stage |-> 0, next_due_utc |-> NoDue,
      total_correct |-> 0, total_wrong |-> 0, total_i_dont_know |-> 0]}

\* update_learning_state and upsert_pinyin_recall_character_bank on the same
\* arguments and clock reading.
UpdateAndUpsert(user_id, character, correct, i_dont_know) ==
    /\ learning_state' = [learning_state EXCEPT ![user_id][character] =
                             update_learning_state(@, correct, i_dont_know, now)]
    /\ bank' = [bank EXCEPT ![user_id][character] =
                   upsert_pinyin_recall_character_bank(@, correct, i_dont_know, now)]
    /\ last_answer' = AnswerRecord(user_id, character, correct, i_dont_know,
                                   learning_state[user_id][character])
    /\ session' = NoSession
    /\ UNCHANGED <<drill, submissions, query, index_calls, corpus, mastered_elsewhere, distractor_call,
                   USE_DATABASE, now, PINYIN_INDEX_CACHE, global_random>>

\* update_learning_state and upsert_pinyin_recall_answer_and_log on the same
\* arguments and clock reading.
UpdateAndUpsertWithLog(user_id, character, correct, i_dont_know) ==
    /\ learning_state' = [learning_state EXCEPT ![user_id][character] =
                             update_learning_state(@, correct, i_dont_know, now)]
    /\ bank' = [bank EXCEPT ![user_id][character] =
                   upsert_pinyin_recall_answer_and_log(@, correct, i_dont_know, now)]
    /\ last_answer' = AnswerRecord(user_id, character, correct, i_dont_know,
                                   learning_state[user_id][character])
    /\ session' = NoSession
    /\ UNCHANGED <<drill, submissions, query, index_calls, corpus, mastered_elsewhere, distractor_call,
                   USE_DATABASE, now, PINYIN_INDEX_CACHE, global_random>>

InitBoth ==
    /\ USE_DATABASE = FALSE
    /\ \E record \in InitialRecords :
          /\ bank = [u \in Users |-> [ch \in Characters |->
                        IF ch = RecordCharacter THEN record ELSE NoRecord]]
          /\ learning_state = bank
    /\ now = 0
    /\ last_answer = NoAnswer
    /\ PINYIN_INDEX_CACHE = NoIndexCache
    /\ global_random = 0
    /\ session = NoSession
    /\ corpus = [lookup |-> hwxnet_lookup, order |-> CorpusOrder]
    /\ mastered_elsewhere = [u \in Users |-> 0]
    /\ distractor_call = NoCall
    /\ index_calls = NoIndexCalls
    /\ submissions = NoSubmissions
    /\ drill = NoDrill
    /\ query = NoQuery

NextBoth ==
    \/ /\ last_answer.seq < MaxRecordAnswers
       /\ \E correct \in BOOLEAN, i_dont_know \in BOOLEAN :
            \/ UpdateAndUpsert(RecordUser, RecordCharacter, correct, i_dont_know)
            \/ UpdateAndUpsertWithLog(RecordUser, RecordCharacter, correct, i_dont_know)
    \/ \E t \in RecordInstants : Tick(t)

SpecBoth == InitBoth /\ [][NextBoth]_vars

----------------------------------------------------------------------------
(* SpecDrill: a learner who asks for a session, answers every item of it,   *)
(* and asks for the next one, for ever                                       *)

MaxDrillCorrect == 1   \* correct answers the learner gives in one behaviour
MaxDrillCount == 1     \* the counters of a record are kept up to this value

DrillUser == "u1"
DrillInstants == {86400, 2 * 86400}

\* The sizes of the drill's sessions: one due item at most, two items in all.
DrillSize == [due_first |-> 1, total_target |-> 2]

\* The learner's answers before the drill, all given at time 0.
DrillHistory == [NoHistory EXCEPT !["A"] = <<"c">>, !["B"] = <<"w">>]

\* The record with its three counters kept up to MaxDrillCount. No statement
\* of build_session_queue reads a counter, and _category_for_character
\* (pinyin_recall.py:36-38) only sums them and tests the sums against 0.
CappedCounters(record) ==
    [record EXCEPT !.total_correct = Min(@, MaxDrillCount),
                   !.total_wrong = Min(@, MaxDrillCount),
                   !.total_i_dont_know = Min(@, MaxDrillCount)]

\* The elements of a list.
Elements(list) == {list[i] : i \in 1..Len(list)}

\* pinyin_recall.py:283, 289, 293: the characters of due_items behind the
\* due_first taken ones whose next_due_utc is set and not later than now.
DueLeftOut(due_items, due_first, user_state, now_ts) ==
    {ch \in Elements(SubSeq(due_items, due_first + 1, Len(due_items))) :
        /\ user_state[ch].next_due_utc # NoDue
        /\ user_state[ch].next_due_utc <= now_ts}

\* GET /api/games/pinyin-recall/session once every item of the previous
\* session has been answered.
DrillBuild(date_str) ==
    /\ drill.pending = <<>>
    /\ \E r \in {build_session_queue(DrillUser, date_str,
                                     get_pinyin_recall_learning_state[DrillUser],
                                     mastered_elsewhere[DrillUser],
                                     corpus.lookup, corpus.order, PINYIN_INDEX_CACHE,
                                     DefaultZibiaoMin, DefaultZibiaoMax,
                                     DrillSize.due_first, DrillSize.total_target,
                                     now, global_random)} :
          /\ PINYIN_INDEX_CACHE' = r.cache
          /\ global_random' = r.global_random
          /\ session' = [built |-> TRUE,
                         user_id |-> DrillUser, date_str |-> date_str,
                         due_first |-> DrillSize.due_first,
                         total_target |-> DrillSize.total_target,
                         global_random |-> global_random,
                         items_out |-> r.items_out,
                         distractor_calls |-> r.distractor_calls,
                         queue |-> r.queue, due_items |-> r.due_items,
                         new_items |-> r.new_items, candidates |-> r.candidates,
                         zibiao_max_effective |-> r.zibiao_max_effective]
          /\ drill' = [drill EXCEPT
                 !.pending = [i \in 1..Len(r.items_out) |-> r.items_out[i].character],
                 !.queued = Elements(r.queue),
                 !.left_out = DueLeftOut(r.due_items, DrillSize.due_first,
                                         get_pinyin_recall_learning_state[DrillUser], now)]
    /\ UNCHANGED <<USE_DATABASE, bank, learning_state, now, last_answer, corpus,
                   mastered_elsewhere, distractor_call, index_calls, query, submissions>>

\* POST /api/games/pinyin-recall/answer for the next unanswered item of the
\* session (app.py pinyin_recall_answer).
DrillAnswer(selected_matches, i_dont_know) ==
    /\ drill.pending # <<>>
    /\ LET character == Head(drill.pending)
           correct == IF i_dont_know THEN FALSE ELSE (~i_dont_know /\ selected_matches)
       IN  /\ correct => drill.correct_given < MaxDrillCorrect
           /\ IF USE_DATABASE
              THEN /\ bank' = [bank EXCEPT ![DrillUser][character] =
                          CappedCounters(upsert_pinyin_recall_character_bank(@, correct, i_dont_know, now))]
                   /\ UNCHANGED learning_state
              ELSE /\ learning_state' = [learning_state EXCEPT ![DrillUser][character] =
                          CappedCounters(update_learning_state(@, correct, i_dont_know, now))]
                   /\ UNCHANGED bank
           /\ drill' = [drill EXCEPT
                  !.pending = Tail(@),
                  !.correct_given = IF correct THEN @ + 1 ELSE @]
    /\ UNCHANGED <<USE_DATABASE, now, last_answer, PINYIN_INDEX_CACHE, global_random,
                   session, corpus, mastered_elsewhere, distractor_call, index_calls,
                   query, submissions>>

InitDrill ==
    /\ USE_DATABASE \in BOOLEAN
    /\ corpus = SmallCorpus
    /\ bank = (IF USE_DATABASE THEN StoreAfter(TRUE, DrillHistory)
               ELSE [u \in Users |-> [ch \in Characters |-> NoRecord]])
    /\ learning_state = (IF USE_DATABASE
                         THEN [u \in Users |-> [ch \in Characters |-> NoRecord]]
                         ELSE StoreAfter(FALSE, DrillHistory))
    /\ mastered_elsewhere = [u \in Users |-> 0]
    /\ now = 86400
    /\ last_answer = NoAnswer
    /\ PINYIN_INDEX_CACHE = NoIndexCache
    /\ global_random = 0
    /\ session = NoSession
    /\ distractor_call = NoCall
    /\ index_calls = NoIndexCalls
    /\ submissions = NoSubmissions
    /\ drill = NoDrill
    /\ query = NoQuery

NextDrill ==
    \/ \E date_str \in Dates : DrillBuild(date_str)
    \/ \E selected_matches \in BOOLEAN, i_dont_know \in BOOLEAN :
          DrillAnswer(selected_matches, i_dont_know)
    \/ \E t \in DrillInstants : Tick(t)

\* A session request is possible exactly when no item is pending, and it
\* leaves an item pending: SmallCorpus has three candidates, each with a
\* pronunciation.
DrillBuildEnabled == drill.pending = <<>>

\* The learner keeps going and the server (app.py:1438-1448) serves every
\* request: an answer that stays possible is given, and so is a session
\* request. The second condition is WF_vars of the session request with
\* DrillBuildEnabled written out for its ENABLED.
SpecDrill ==
    /\ InitDrill
    /\ [][NextDrill]_vars
    /\ WF_vars(\E selected_matches \in BOOLEAN, i_dont_know \in BOOLEAN :
                  DrillAnswer(selected_matches, i_dont_know))
    /\ \/ []<>(~DrillBuildEnabled)
       \/ []<><<\E date_str \in Dates : DrillBuild(date_str)>>_vars

----------------------------------------------------------------------------
(* Properties of the answer processors (SpecRecord) *)

\* The outcome an answer's flag pair denotes, "I don't know" dominating.
Outcome(correct, i_dont_know) ==
    IF i_dont_know THEN "unknown" ELSE IF correct THEN "correct" ELSE "incorrect"

LastOutcome == Outcome(last_answer.correct, last_answer.i_dont_know)

\* C5 - Score bounds: after every step of any sequence of answers (correct,
\* incorrect, unknown, in any mix) every record's score lies within [0, 100].
C5_ScoreBounds ==
    \A u \in Users, ch \in Characters :
        /\ bank[u][ch].score >= 0 /\ bank[u][ch].score <= 100
        /\ learning_state[u][ch].score >= 0 /\ learning_state[u][ch].score <= 100

\* A correct answer applied to a row already at score 100 (the cap acts).
C5_Witness ==
    /\ last_answer.seq > 0
    /\ USE_DATABASE
    /\ last_answer.correct
    /\ last_answer.before.score = 100
    /\ AnsweredRecord.score = 100

\* C6 - Stage reset law: an answer whose outcome is incorrect or unknown
\* (the flag pair correct=true, unknown=true included) leaves the record
\* with stage = 0 and next_due absent, whatever the stage before.
C6_StageResetLaw ==
    (last_answer.seq > 0 /\ (last_answer.i_dont_know \/ ~last_answer.correct))
        => (AnsweredRecord.stage = 0 /\ AnsweredRecord.next_due_utc = NoDue)

\* The flag pair (true, true) applied to a record at stage 5.
C6_Witness ==
    /\ last_answer.seq > 0
    /\ last_answer.correct /\ last_answer.i_dont_know
    /\ last_answer.before.stage = 5
    /\ AnsweredRecord.stage = 0
    /\ AnsweredRecord.next_due_utc = NoDue

\* C7 - Each answer increments exactly one of total_correct / total_wrong /
\* total_unknown by 1 and leaves the other two unchanged, the counter being
\* chosen by the outcome with unknown taking precedence over correct.
C7_ExactlyOneCounter ==
    last_answer.seq > 0 =>
        LET before == last_answer.before
            after == AnsweredRecord
            Inc(hit) == IF hit THEN 1 ELSE 0
        IN  /\ after.total_correct = before.total_correct + Inc(LastOutcome = "correct")
            /\ after.total_wrong = before.total_wrong + Inc(LastOutcome = "incorrect")
            /\ after.total_i_dont_know =
                   before.total_i_dont_know + Inc(LastOutcome = "unknown")

\* C8 - Score delta: the new score is min(score + 10, 100) when the outcome is
\* correct and max(score - 15, 0) when it is incorrect or unknown (unknown
\* dominating the correct flag).
C8_ScoreDelta ==
    (last_answer.seq > 0 /\ USE_DATABASE) =>
        AnsweredRecord.score =
            IF LastOutcome = "correct"
            THEN Min(last_answer.before.score + 10, 100)
            ELSE Max(last_answer.before.score - 15, 0)

\* The review ladder as the claim words it: day offsets by stage, the stage-0
\* offset being 60 seconds.
LadderSeconds(stage) ==
    IF stage = 0 THEN 60 ELSE <<0, 1, 3, 7, 14, 30>>[stage + 1] * 86400

\* C9 - Advance on correct: a correct answer to a record at stage s sets
\* stage to min(s + 1, 5) and next_due to the time of the answer plus the
\* ladder offset of the new stage; a record at stage 5 stays at stage 5 and
\* is rescheduled 30 days ahead.
C9_AdvanceOnCorrect ==
    (last_answer.seq > 0 /\ LastOutcome = "correct") =>
        /\ AnsweredRecord.stage = Min(last_answer.before.stage + 1, 5)
        /\ AnsweredRecord.next_due_utc =
               last_answer.now_ts + LadderSeconds(AnsweredRecord.stage)

\* A further correct answer to a record at stage 5, given after the clock moved.
C9_Witness ==
    /\ last_answer.seq > 0
    /\ LastOutcome = "correct"
    /\ last_answer.before.stage = 5
    /\ last_answer.now_ts > 0
    /\ AnsweredRecord.stage = 5
    /\ AnsweredRecord.next_due_utc = last_answer.now_ts + 30 * 86400

\* C10 - Mastery-record invariant: every record's stage is in 0..5; a record
\* whose most recent outcome was incorrect or unknown is at stage 0; next_due
\* is present only if the most recent outcome was correct (never on a record
\* that was not answered).
C10_MasteryRecordInvariant ==
    /\ \A u \in Users, ch \in Characters :
          LET rec == get_pinyin_recall_learning_state[u][ch]
          IN  /\ rec.stage \in 0..5
              /\ ~rec.present => (rec.stage = 0 /\ rec.next_due_utc = NoDue)
    /\ last_answer.seq > 0 =>
          /\ LastOutcome # "correct" => AnsweredRecord.stage = 0
          /\ AnsweredRecord.next_due_utc # NoDue => LastOutcome = "correct"

\* A scheduled record (next_due present, stage >= 2) reset by an "I don't know".
C10_Witness ==
    /\ last_answer.seq > 0
    /\ LastOutcome = "unknown"
    /\ last_answer.before.next_due_utc # NoDue
    /\ last_answer.before.stage >= 2
    /\ AnsweredRecord.stage = 0
    /\ AnsweredRecord.next_due_utc = NoDue

----------------------------------------------------------------------------
(* Properties of the session queue (Spec) *)

\* The learner's records the latest build_session_queue call read (the
\* record of a session ends with the next answer or clock reading, so the
\* store and the clock still are what the call saw).
SessionUserState == get_pinyin_recall_learning_state[session.user_id]

QueuedCharacters ==
    {session.items_out[i].character : i \in 1..Len(session.items_out)}

\* C1 - Determinism: two build_session_queue calls with the same user_id,
\* date_key, learning-state contents and corpus return identical output
\* (same characters, order, choices and categories).
C1_Determinism ==
    [][(/\ session.built
        /\ session'.built
        /\ session'.user_id = session.user_id
        /\ session'.date_str = session.date_str
        /\ session'.due_first = session.due_first
        /\ session'.total_target = session.total_target)
       => session'.items_out = session.items_out]_vars

\* C2 - No self-collision: no distractor returned by build_distractors, and
\* no wrong choice of an emitted item, equals the character's correct
\* pronunciation or one of its other pronunciations, whichever tier supplied it.
C2_NoSelfCollision ==
    /\ \A i \in 1..Len(session.distractor_calls) :
          LET call == session.distractor_calls[i]
          IN  \A j \in 1..Len(call.result) :
                 /\ call.result[j] # call.correct_pinyin
                 /\ ~InSeq(call.result[j], call.other_pronunciations)
    /\ \A i \in 1..Len(session.items_out) :
          LET item == session.items_out[i]
              entry == hwxnet_lookup[item.character]
          IN  /\ Cardinality({j \in 1..Len(item.choices) :
                                 item.choices[j] = item.correct_pinyin}) = 1
              /\ \A j \in 1..Len(item.choices) :
                    ~InSeq(item.choices[j], get_other_pronunciations(entry))

\* The item of character A (two pronunciations) filled up to three
\* distractors by the random fallback tier.
C2_Witness ==
    \E i \in 1..Len(session.distractor_calls) :
        /\ session.distractor_calls[i].character = "A"
        /\ session.distractor_calls[i].other_pronunciations # <<>>
        /\ session.distractor_calls[i].tier = 3
        /\ Len(session.distractor_calls[i].result) = 3
        /\ "A" \in QueuedCharacters

\* Characters whose record has next_due <= now.
DueNow ==
    {ch \in Characters :
        /\ SessionUserState[ch].present
        /\ SessionUserState[ch].next_due_utc # NoDue
        /\ SessionUserState[ch].next_due_utc <= now}

\* C3 - Due-item priority: when at most due_first characters have a record
\* with next_due <= now, every candidate-pool character with a valid
\* pronunciation whose record has next_due <= now is in the returned queue.
C3_DueItemPriority ==
    (session.built /\ Cardinality(DueNow) <= session.due_first) =>
        \A ch \in DueNow :
            (InSeq(ch, session.candidates) /\ get_correct_pinyin(hwxnet_lookup[ch]) # <<>>)
                => ch \in QueuedCharacters

\* C4 - Future-due exclusion: no character of a returned queue has a record
\* whose next_due is later than the time of the call.
C4_FutureDueExclusion ==
    session.built =>
        \A ch \in QueuedCharacters :
            ~(SessionUserState[ch].next_due_utc # NoDue
              /\ SessionUserState[ch].next_due_utc > now)

\* A build with room for every candidate (total_target 20) while character A
\* is scheduled in the future: A is left out, others are queued.
C4_Witness ==
    /\ session.built
    /\ session.total_target = 20
    /\ SessionUserState["A"].next_due_utc > now
    /\ InSeq("A", session.candidates)
    /\ "A" \notin QueuedCharacters
    /\ QueuedCharacters # {}

----------------------------------------------------------------------------
(* Scenario of the answer processors (SpecRecord) *)

\* The latest answer was correct and completed the sequence incorrect,
\* incorrect, correct on a record that did not exist before: it is the third
\* answer, and the record it found counted two incorrect answers and nothing else.
TwoWrongThenCorrect ==
    /\ last_answer.seq = 3
    /\ last_answer.correct /\ ~last_answer.i_dont_know
    /\ last_answer.before.total_wrong = 2
    /\ last_answer.before.total_correct = 0
    /\ last_answer.before.total_i_dont_know = 0

\* C11 - Scenario law as stated: two incorrect answers then one correct answer
\* on a character with no prior record give stage 1, next_due = time of the
\* last answer + 1 day, total_wrong 2, total_correct 1 and score 0.
C11_ScenarioLaw ==
    TwoWrongThenCorrect =>
        /\ AnsweredRecord.stage = 1
        /\ AnsweredRecord.next_due_utc = last_answer.now_ts + SecondsPerDay
        /\ AnsweredRecord.total_wrong = 2
        /\ AnsweredRecord.total_correct = 1
        /\ AnsweredRecord.score = 0

\* C11 amended - the same scenario gives stage 1, next_due = time of the last
\* answer + 1 day, total_wrong 2, total_correct 1, and a score of 10 in the
\* character-bank row (both decrements floor at 0, then the correct answer
\* adds 10); the in-memory record keeps no score.
C11_ScenarioLawAmended ==
    TwoWrongThenCorrect =>
        /\ AnsweredRecord.stage = 1
        /\ AnsweredRecord.next_due_utc = last_answer.now_ts + SecondsPerDay
        /\ AnsweredRecord.total_wrong = 2
        /\ AnsweredRecord.total_correct = 1
        /\ AnsweredRecord.total_i_dont_know = 0
        /\ AnsweredRecord.score =
              (IF USE_DATABASE THEN PINYIN_RECALL_SCORE_CORRECT_DELTA ELSE 0)

\* The scenario played on the character-bank row, the correct answer given
\* at a later clock reading than the first.
C11_Witness ==
    /\ TwoWrongThenCorrect
    /\ USE_DATABASE
    /\ last_answer.now_ts > 0
    /\ AnsweredRecord.score = 10

----------------------------------------------------------------------------
(* Properties of the session queue over corpora and learners (SpecQueue) *)

\* The learner of the latest build has no mastery record.
FreshLearner == \A ch \in Characters : ~SessionUserState[ch].present

\* Every character of the candidate pool has a valid pronunciation.
PoolAllValid ==
    \A i \in 1..Len(session.candidates) :
        get_correct_pinyin(corpus.lookup[session.candidates[i]]) # <<>>

MasteredCount ==
    Cardinality({ch \in Characters :
                    SessionUserState[ch].present /\ SessionUserState[ch].score >= 10})
    + mastered_elsewhere[session.user_id]

\* R: the highest rank index present in the corpus (0 when no entry has one).
HighestRank ==
    LET ranks == {corpus.lookup[ch].zibiao_index : ch \in DOMAIN corpus.lookup} \ {NoIndex}
    IN  IF ranks = {} THEN 0 ELSE CHOOSE r \in ranks : \A q \in ranks : q <= r

RanksOfQueueWithin(bound) ==
    \A i \in 1..Len(session.queue) :
        LET rank == corpus.lookup[session.queue[i]].zibiao_index
        IN  rank # NoIndex /\ 1 <= rank /\ rank <= bound

\* C13 - Pool expansion as stated: the upper rank bound used by
\* build_session_queue equals min(500 + 500 * floor(m / 200), R), and no
\* character with rank index outside [1, that bound] is queued.
C13_PoolExpansion ==
    session.built =>
        LET bound == Min(500 + 500 * (MasteredCount \div 200), HighestRank)
        IN  /\ session.zibiao_max_effective = bound
            /\ RanksOfQueueWithin(bound)

\* C13 amended - the upper rank bound used by build_session_queue (default
\* zibiao_max) equals max(500, min(500 + 500 * floor(m / 200), R)), with R
\* taken as 7000 when no entry of the corpus has a rank index: the cap at R
\* applies only above the initial 500. No character with rank index outside
\* [1, that bound] is queued.
C13_PoolExpansionAmended ==
    session.built =>
        LET cap == IF HighestRank = 0 THEN 7000 ELSE HighestRank
            bound == Max(500, Min(500 + 500 * (MasteredCount \div 200), cap))
        IN  /\ session.zibiao_max_effective = bound
            /\ RanksOfQueueWithin(bound)

\* A learner with at least 200 mastered records: the bound grows to the
\* corpus's highest rank 501 and the character of that rank is queued.
C13_Witness ==
    /\ session.built
    /\ MasteredCount >= 200
    /\ HighestRank = 501
    /\ session.zibiao_max_effective = 501
    /\ InSeq("F", session.queue)

----------------------------------------------------------------------------
(* Partition, ordering and assembly of the session queue *)

\* C14 - Partition rule: a candidate is classified `new` if it has no
\* mastery record or its record has next_due absent, and `due` only if it has
\* a record with next_due at or before now; a record with next_due absent is
\* never placed in the due list nor counted against due_first.
C14_PartitionRule ==
    session.built =>
        /\ \A i \in 1..Len(session.due_items) :
               LET state == SessionUserState[session.due_items[i]]
               IN  state.present /\ state.next_due_utc # NoDue /\ state.next_due_utc <= now
        /\ \A i \in 1..Len(session.candidates) :
               LET ch == session.candidates[i]
                   state == SessionUserState[ch]
               IN  (~state.present \/ state.next_due_utc = NoDue)
                       => (InSeq(ch, session.new_items) /\ ~InSeq(ch, session.due_items))

\* The characters of the returned items, in order.
ReturnedCharacters ==
    [i \in 1..Len(session.items_out) |-> session.items_out[i].character]

\* Positions of the returned queue holding a character whose record has
\* next_due <= now.
DuePositions == {i \in 1..Len(ReturnedCharacters) : ReturnedCharacters[i] \in DueNow}

\* C15 - Due ordering and cap: in every returned queue the characters whose
\* record has next_due <= now number at most due_first, appear in
\* non-decreasing order of record score, and all precede every queued
\* character that has no record.
C15_DueOrderingAndCap ==
    session.built =>
        /\ Cardinality(DuePositions) <= session.due_first
        /\ \A i \in DuePositions, j \in DuePositions :
               i < j => SessionUserState[ReturnedCharacters[i]].score
                           <= SessionUserState[ReturnedCharacters[j]].score
        /\ \A i \in DuePositions, j \in 1..Len(ReturnedCharacters) :
               ~SessionUserState[ReturnedCharacters[j]].present => i < j

\* A queue with two due characters of different scores and a character
\* without a record.
C15_Witness ==
    /\ session.built
    /\ \E i \in DuePositions, j \in DuePositions :
          /\ i < j
          /\ SessionUserState[ReturnedCharacters[i]].score
                < SessionUserState[ReturnedCharacters[j]].score
    /\ \E j \in 1..Len(ReturnedCharacters) :
          ~SessionUserState[ReturnedCharacters[j]].present
    /\ Cardinality(DueNow) > 1

\* The characters of S in increasing (rank index, code point) order.
RECURSIVE RankOrdered(_)
RankOrdered(S) ==
    IF S = {} THEN <<>>
    ELSE LET first == CHOOSE ch \in S : \A other \in S :
                          \/ corpus.lookup[ch].zibiao_index < corpus.lookup[other].zibiao_index
                          \/ /\ corpus.lookup[ch].zibiao_index = corpus.lookup[other].zibiao_index
                             /\ CodePoint[ch] <= CodePoint[other]
         IN  <<first>> \o RankOrdered(S \ {first})

\* The candidate pool of the latest build, as a set.
CandidatePool ==
    {ch \in DOMAIN corpus.lookup :
        /\ corpus.lookup[ch].zibiao_index # NoIndex
        /\ DefaultZibiaoMin <= corpus.lookup[ch].zibiao_index
        /\ corpus.lookup[ch].zibiao_index <= session.zibiao_max_effective}

\* C16 - Seeded candidate ordering: for a fixed corpus and candidate pool the
\* shuffled candidate order is a function of (user_id, date_key) only: it is
\* the seeded shuffle of the rank-ordered pool, whatever the mapping's
\* iteration order, the clock, the learner's next_due values and the calls
\* made before.
C16_SeededCandidateOrdering ==
    session.built =>
        session.candidates =
            shuffle(RankOrdered(CandidatePool),
                    seeded_random(session.user_id, session.date_str)).list

\* A build on the corpus with the other iteration order, after the clock
\* advanced and an earlier build moved the module-level generator, for a
\* learner with scheduled records; the shuffle changed the rank order.
C16_Witness ==
    /\ session.built
    /\ corpus = ReorderedCorpus
    /\ now > 0
    /\ PINYIN_INDEX_CACHE.built /\ session.global_random # global_random
    /\ \E ch \in Characters : SessionUserState[ch].next_due_utc # NoDue
    /\ Len(session.candidates) = 5
    /\ session.candidates # RankOrdered(CandidatePool)

\* The character's entry has a valid pronunciation: the first of its list,
\* which is not blank.
HasValidPronunciation(ch) ==
    /\ corpus.lookup[ch].pinyin # <<>>
    /\ \E i \in 1..Len(corpus.lookup[ch].pinyin[1]) : corpus.lookup[ch].pinyin[1][i] # " "

\* C17 - Corpus-defect tolerance: a selected character without a valid
\* pronunciation is omitted, every other selected character is emitted in
\* its original relative order, and every emitted item has a non-empty
\* correct pronunciation.
C17_CorpusDefectTolerance ==
    session.built =>
        /\ ReturnedCharacters = SelectSeq(session.queue, HasValidPronunciation)
        /\ \A i \in 1..Len(session.items_out) :
               /\ session.items_out[i].correct_pinyin # <<>>
               /\ \A k \in 1..Len(session.items_out[i].correct_pinyin) :
                      session.items_out[i].correct_pinyin[k] # " "

\* The character without pronunciations was selected ahead of others: it is
\* left out and the characters selected after it are emitted.
C17_Witness ==
    /\ session.built
    /\ \E i \in 1..Len(session.queue) :
          /\ session.queue[i] = "E"
          /\ ~HasValidPronunciation("E")
          /\ i < Len(session.queue)
          /\ InSeq(session.queue[i + 1], ReturnedCharacters)
    /\ ~InSeq("E", ReturnedCharacters)

----------------------------------------------------------------------------
(* Properties of build_distractors (SpecDistractors) *)

\* The pronunciations of the corpus: the non-blank entries of every
\* pronunciation list, stripped (the content of the index's flat list).
CorpusPronunciations ==
    UNION {{strip(corpus.lookup[ch].pinyin[i]) : i \in 1..Len(corpus.lookup[ch].pinyin)} :
              ch \in DOMAIN corpus.lookup} \ {<<>>}

\* p and q are the same pronunciation up to surrounding blanks and letter case.
SamePronunciation(p, q) == lower(strip(p)) = lower(strip(q))

\* p is neither the correct nor an alternate pronunciation of the call.
Eligible(p) ==
    /\ ~SamePronunciation(p, distractor_call.correct_pinyin)
    /\ \A i \in 1..Len(distractor_call.other_pronunciations) :
           ~SamePronunciation(p, distractor_call.other_pronunciations[i])

BaseOf(p) == pinyin_to_base_and_tone(p).base
ToneOf(p) == ToneBucket(pinyin_to_base_and_tone(p).tone)

\* Tier 1: same syllable base as the correct pronunciation, another tone.
IsTier1(p) ==
    /\ BaseOf(p) = BaseOf(distractor_call.correct_pinyin)
    /\ ToneOf(p) # ToneOf(distractor_call.correct_pinyin)

\* Tier 2: same tone as the correct pronunciation, another syllable base.
IsTier2(p) ==
    /\ BaseOf(p) # BaseOf(distractor_call.correct_pinyin)
    /\ ToneOf(p) = ToneOf(distractor_call.correct_pinyin)

Returned == {distractor_call.result[i] : i \in 1..Len(distractor_call.result)}

\* C18 - Distractor tier priority: a tier-2 pronunciation is in the result
\* only if every eligible tier-1 pronunciation is, and a pronunciation that
\* is neither tier 1 nor tier 2 is in the result only if every eligible
\* tier-1 and tier-2 pronunciation is.
C18_DistractorTierPriority ==
    distractor_call.done =>
        /\ (\E p \in Returned : IsTier2(p))
              => \A q \in CorpusPronunciations :
                    (Eligible(q) /\ IsTier1(q)) => q \in Returned
        /\ (\E p \in Returned : ~IsTier1(p) /\ ~IsTier2(p))
              => \A q \in CorpusPronunciations :
                    (Eligible(q) /\ (IsTier1(q) \/ IsTier2(q))) => q \in Returned

\* A result holding a tier-1, a tier-2 and a fallback pronunciation.
C18_Witness ==
    /\ distractor_call.done
    /\ \E p \in Returned : IsTier1(p)
    /\ \E p \in Returned : IsTier2(p)
    /\ \E p \in Returned : ~IsTier1(p) /\ ~IsTier2(p)

\* C19 - Distractor supply: build_distractors returns a list with no
\* repeated entry whose length is min(count, number of corpus pronunciations
\* that are neither the correct nor an alternate pronunciation).
C19_DistractorSupply ==
    distractor_call.done =>
        /\ Cardinality(Returned) = Len(distractor_call.result)
        /\ Len(distractor_call.result) =
              Min(distractor_call.count,
                  Cardinality({q \in CorpusPronunciations : Eligible(q)}))

\* C20 (phonetic-index caching): within one process build_pinyin_index runs at
\* most once, every call that has been handed an index was handed the same
\* instance, also when the first uses overlap, and the published index keeps the
\* content built from the corpus.
C20_PhoneticIndexCaching ==
    /\ index_calls.build_runs <= 1
    /\ \A t1 \in Threads, t2 \in Threads :
          (index_calls.used[t1] # 0 /\ index_calls.used[t2] # 0)
              => index_calls.used[t1] = index_calls.used[t2]
    /\ PINYIN_INDEX_CACHE.built =>
          PINYIN_INDEX_CACHE = get_or_build_pinyin_index(NoIndexCache, corpus.lookup, corpus.order)

----------------------------------------------------------------------------
(* Generators of concurrent session builds (SpecCache) *)

\* C21 (generator isolation): no step of a build_session_queue call reads or
\* advances generator state shared with another call, so the module-level
\* generator of `random` is left as it was by every step of every thread.
C21_GeneratorIsolation == [][global_random' = global_random]_vars

----------------------------------------------------------------------------
(* Properties of the query parser and the normalizer (SpecSearch) *)

\* The query as the parser sees it: stripped and lower-cased.
QueryToken == lower(strip(query.raw))

HasToneMarkedVowel(s) ==
    \E i \in 1..Len(s) : s[i] \in TONE_MARK_CHARS \ {"v0"}

\* The token is written with lower-case letters and the toneless u-diaeresis only.
OnlyLetters(s) ==
    s # <<>> /\ \A i \in 1..Len(s) : s[i] \in {"k", "e", "v0"}

SevenKeys(base) ==
    <<base, Append(base, "1"), Append(base, "2"), Append(base, "3"),
      Append(base, "4"), Append(base, "0"), Append(base, "5")>>

\* C22 (toneless query expansion): a query token made only of letters or the
\* toneless u-diaeresis, with no tone-marked vowel and no trailing digit, is
\* accepted with exactly the keys base, base1, base2, base3, base4, base0,
\* base5 in that order, base being the token with u-diaeresis written v.
C22_TonelessQueryExpansion ==
    (query.parsed /\ OnlyLetters(query.raw))
        => query.result = Accepted(SevenKeys(normalize_u_diaeresis_to_v(query.raw)))

Digits == {"0", "1", "2", "3", "4", "5", "6"}

\* The part of the token the parser takes as the base: the token without a
\* trailing digit of "012345" when it has one and is longer than that digit.
BasePart(s) ==
    IF Len(s) >= 2 /\ s[Len(s)] \in ToneDigits THEN SubSeq(s, 1, Len(s) - 1) ELSE s

HasNonLetter(s) ==
    \E i \in 1..Len(s) : s[i] \in Digits \cup Whitespace \cup {"-"}

\* C23 (query rejection): parse_pinyin_query rejects, with the one error and no
\* keys, an empty input, an input with embedded whitespace, a token with both a
\* tone mark and a trailing digit, and a token whose base contains a
\* non-letter; and in every result valid holds exactly when there is a
\* non-empty key list and no error.
C23_QueryRejection ==
    query.parsed =>
        /\ QueryToken = <<>> => query.result = Rejected
        /\ (\E i \in 1..Len(QueryToken) : QueryToken[i] \in Whitespace)
              => query.result = Rejected
        /\ (/\ HasToneMarkedVowel(QueryToken)
            /\ QueryToken[Len(QueryToken)] \in Digits)
              => query.result = Rejected
        /\ (QueryToken # <<>> /\ HasNonLetter(BasePart(QueryToken)))
              => query.result = Rejected
        /\ query.result.valid <=>
              (query.result.has_keys /\ query.result.keys # <<>> /\ query.result.error = "")
        /\ ~query.result.valid => query.result.error = FormatError

\* A tone-marked token with a trailing digit has been parsed and rejected.
C23_Witness ==
    /\ query.parsed
    /\ query.raw = <<"k", "e3", "3">>
    /\ query.result = Rejected

HasVowel(s) == \E i \in 1..Len(s) : s[i] \in PLAIN_VOWELS \cup TONE_MARK_CHARS

\* The tones 1-4 marked on the vowels of the token.
MarkedTones(s) ==
    {ACCENT_TO_BASE_AND_TONE[s[i]][2] :
        i \in {j \in 1..Len(s) : s[j] \in TONE_MARK_CHARS \ {"v0"}}}

\* The token with every accented vowel replaced by its plain vowel.
PlainSpelling(s) ==
    [i \in 1..Len(s) |->
        IF s[i] \in TONE_MARK_CHARS THEN ACCENT_TO_BASE_AND_TONE[s[i]][1] ELSE s[i]]

\* C24 (normalizer validity): pinyin_to_base_and_tone returns an empty base for
\* a token without a vowel; for a token with a vowel it returns the token with
\* each tone-marked vowel replaced by its plain vowel (u-diaeresis forms by v),
\* with the tone of the mark, or tone 0 when the token has no tone mark.
C24_NormalizerValidity ==
    query.normalized =>
        /\ ~HasVowel(QueryToken) => query.normal.base = NoBase
        /\ HasVowel(QueryToken) =>
              /\ query.normal.base = PlainSpelling(QueryToken)
              /\ IF MarkedTones(QueryToken) = {} THEN query.normal.tone = 0
                 ELSE query.normal.tone \in MarkedTones(QueryToken)

----------------------------------------------------------------------------
(* Category of an answered record (SpecRecord) *)

\* C25 (category law): the category of a record is new iff no answer was ever
\* applied to it, revise iff some applied outcome was incorrect or unknown
\* (unknown dominating the correct flag) and confirm otherwise. Stated step by
\* step: before any answer the category is new; after an answer it is revise
\* when the outcome was incorrect or unknown or the category before was
\* revise, and confirm otherwise.
C25_CategoryLaw ==
    IF last_answer.seq = 0
    THEN category_for_character(AnsweredRecord) = CATEGORY_NEW
    ELSE category_for_character(AnsweredRecord) =
            IF \/ LastOutcome \in {"incorrect", "unknown"}
               \/ category_for_character(last_answer.before) = CATEGORY_REVISE
            THEN CATEGORY_REVISE
            ELSE CATEGORY_CONFIRM

----------------------------------------------------------------------------
(* Concurrent answer submissions (SpecSubmit) *)

SubmittedRecord(ch) == get_pinyin_recall_learning_state[SubmitUser][ch]

CounterSum(ch) ==
    SubmittedRecord(ch).total_correct + SubmittedRecord(ch).total_wrong
        + SubmittedRecord(ch).total_i_dont_know

InFlight(ch) ==
    \E t \in SubmitThreads : submissions.pc[t] # "idle" /\ submissions.character[t] = ch

\* C26 (serialised mutation): for a character whose submissions were never in
\* flight together, once none is in flight the three counters of its record sum
\* to the number of completed submissions and the score of its row is the one
\* all their deltas lead to. (With overlapping submissions a lost update is
\* reachable: C26_Witness.)
C26_SerialisedMutation ==
    \A ch \in SubmitCharacters :
        (~submissions.overlapped[ch] /\ ~InFlight(ch)) =>
            /\ CounterSum(ch) = submissions.completed[ch]
            /\ USE_DATABASE => SubmittedRecord(ch).score = submissions.score[ch]

\* Two serial submissions for A have both been counted, and of two overlapping
\* submissions for B one has been lost.
C26_Witness ==
    /\ USE_DATABASE
    /\ ~submissions.overlapped["A"] /\ ~InFlight("A")
    /\ submissions.completed["A"] = 2 /\ CounterSum("A") = 2
    /\ submissions.overlapped["B"] /\ ~InFlight("B")
    /\ submissions.completed["B"] = 2 /\ CounterSum("B") = 1

----------------------------------------------------------------------------
(* The two answer processors side by side (SpecBoth) *)

\* C27 (equivalence of the answer processors): started from the same record
\* and given the same answers at the same clock readings, the in-memory
\* processor and the database processors leave the same stage, next_due_utc,
\* total_correct, total_wrong and total_i_dont_know after every step.
C27_ProcessorEquivalence ==
    \A u \in Users, ch \in Characters :
        /\ learning_state[u][ch].present = bank[u][ch].present
        /\ learning_state[u][ch].stage = bank[u][ch].stage
        /\ learning_state[u][ch].next_due_utc = bank[u][ch].next_due_utc
        /\ learning_state[u][ch].total_correct = bank[u][ch].total_correct
        /\ learning_state[u][ch].total_wrong = bank[u][ch].total_wrong
        /\ learning_state[u][ch].total_i_dont_know = bank[u][ch].total_i_dont_know

\* Both processors have taken the record to the top of the ladder after an
\* unknown and a wrong answer, at a later clock reading.
C27_Witness ==
    /\ last_answer.seq >= 7
    /\ last_answer.now_ts > 0
    /\ bank[RecordUser][RecordCharacter].stage = MAX_STAGE
    /\ learning_state[RecordUser][RecordCharacter].stage = MAX_STAGE
    /\ bank[RecordUser][RecordCharacter].total_i_dont_know >= 1
    /\ learning_state[RecordUser][RecordCharacter].total_wrong >= 1
    /\ bank[RecordUser][RecordCharacter].score > 0

----------------------------------------------------------------------------
(* Size of the session queue (SpecQueue) *)

\* C28 (queue size and uniqueness): for every learner state, corpus and choice
\* of total_target and due_first, due_first greater than total_target
\* included, the returned queue has at most total_target items and no
\* character occurs in it twice.
C28_QueueSizeAndUniqueness ==
    session.built =>
        /\ Len(session.items_out) <= session.total_target
        /\ \A i \in 1..Len(session.items_out), j \in 1..Len(session.items_out) :
               session.items_out[i].character = session.items_out[j].character => i = j

----------------------------------------------------------------------------
(* Homophones among the distractors (SpecDistractors) *)

\* C29 (no homophone distractor): no distractor returned by build_distractors
\* normalizes to the same (base, tone) pair as the correct pronunciation.
C29_NoHomophoneDistractor ==
    distractor_call.done =>
        \A i \in 1..Len(distractor_call.result) :
            pinyin_to_base_and_tone(distractor_call.result[i])
                # pinyin_to_base_and_tone(distractor_call.correct_pinyin)


----------------------------------------------------------------------------
(* Properties of repeated sessions (SpecDrill) *)

\* C30: a character that is due and that a queue leaves out, because
\* due_first characters were placed ahead of it, is in the queue of some
\* later session, however the learner answers the items of the sessions
\* in between.
C30_NoStarvation ==
    \A ch \in Characters : (ch \in drill.left_out) ~> (ch \in drill.queued)

====
